---- MODULE Spec2Model ----
(***************************************************************************)
(* Agent orchestration core of the tour-search assistant                   *)
(* (backend/yandex_handler.py, backend/openai_handler.py,                  *)
(* backend/tourvisor_client.py).                                           *)
(*                                                                         *)
(* Texts are represented by the set of detector families that match them   *)
(* (a "feature" per regex family of the source); a message is a record     *)
(* [role, text, tool_calls, tool_call_id].  Tool arguments are finite      *)
(* functions from argument names to values; an absent key is Python's      *)
(* None / missing key.                                                     *)
(***************************************************************************)
EXTENDS Integers, Sequences, FiniteSets, TLC

(***************************************************************************)
(* Bounds of the model                                                     *)
(***************************************************************************)
MaxHistory == 2      \* messages the environment appends in the dispatch model
MaxDispatch == 2     \* tool calls dispatched in the dispatch model

(***************************************************************************)
(* Generic helpers                                                         *)
(***************************************************************************)
Has(f, k) == k \in DOMAIN f

\* Python truthiness of args.get(k) for integer-valued keys
Truthy(f, k) == Has(f, k) /\ f[k] # 0

Put(f, k, v) == [x \in (DOMAIN f) \cup {k} |-> IF x = k THEN v ELSE f[x]]

Pop(f, k) == [x \in (DOMAIN f) \ {k} |-> f[x]]

Last(s) == s[Len(s)]

RECURSIVE SeqUnion(_)
SeqUnion(s) == IF s = <<>> THEN {} ELSE Head(s) \cup SeqUnion(Tail(s))

\* s[-n:] of Python
TailN(s, n) == IF Len(s) <= n THEN s ELSE SubSeq(s, Len(s) - n + 1, Len(s))

(***************************************************************************)
(* Dates.  A date argument is a record: [t |-> "full", d, m, y, pad] for a *)
(* DD.MM.YYYY string (pad: day and month are written with two digits),     *)
(* [t |-> "dm", d, m, pad] for DD.MM without a year, [t |-> "leak"] for a  *)
(* value containing function-call syntax and [t |-> "junk"] for any other  *)
(* string.  Now is the value of datetime.now() (a time after midnight).    *)
(***************************************************************************)
Now == [d |-> 4, m |-> 11, y |-> 2026]

BaseYear == Now.y

IsLeap(y) == (y % 4 = 0 /\ y % 100 # 0) \/ y % 400 = 0

MonthLen(m, y) ==
    IF m = 2 THEN (IF IsLeap(y) THEN 29 ELSE 28)
    ELSE IF m \in {4, 6, 9, 11} THEN 30 ELSE 31

FullDate(d, m, y) == [t |-> "full", d |-> d, m |-> m, y |-> y, pad |-> TRUE]

\* datetime.strptime(s, "%d.%m.%Y") succeeds
Parses(v) ==
    /\ v.t = "full"
    /\ v.m \in 1..12
    /\ v.d \in 1..MonthLen(v.m, v.y)

RECURSIVE DaysBeforeYear(_)
DaysBeforeYear(y) ==
    IF y <= BaseYear THEN 0
    ELSE DaysBeforeYear(y - 1) + (IF IsLeap(y - 1) THEN 366 ELSE 365)

RECURSIVE DaysBeforeMonth(_, _)
DaysBeforeMonth(m, y) ==
    IF m <= 1 THEN 0 ELSE DaysBeforeMonth(m - 1, y) + MonthLen(m - 1, y)

\* days since 01.01.BaseYear
Ord(v) == DaysBeforeYear(v.y) + DaysBeforeMonth(v.m, v.y) + v.d - 1

NextDay(v) ==
    IF v.d < MonthLen(v.m, v.y) THEN FullDate(v.d + 1, v.m, v.y)
    ELSE IF v.m < 12 THEN FullDate(1, v.m + 1, v.y)
    ELSE FullDate(1, 1, v.y + 1)

RECURSIVE AddDays(_, _)
AddDays(v, n) == IF n = 0 THEN FullDate(v.d, v.m, v.y) ELSE AddDays(NextDay(v), n - 1)

Abs(x) == IF x < 0 THEN 0 - x ELSE x

Min(x, y) == IF x <= y THEN x ELSE y

\* value of "x or dflt" for an optional integer argument
OrElse(args, k, dflt) == IF Truthy(args, k) THEN args[k] ELSE dflt

\* a truthy string argument (present; the model has no empty date strings)
HasStr(args, k) == Has(args, k)

(***************************************************************************)
(* Text of the recent user turns, as the correctors of search_tours read   *)
(* it (with or without the function-result turns, as each one does)        *)
(***************************************************************************)
IsUser(m) == m.role = "user"

RecentUserText(hist, n, Keep(_)) ==
    LET r == SelectSeq(TailN(hist, n), Keep)
    IN  SeqUnion([i \in 1..Len(r) |-> r[i].text])

(***************************************************************************)
(* search_tours: departure validation (yandex_handler.py:1387-1452)        *)
(***************************************************************************)
DEPARTURE_CITIES ==
    [c \in {1, 2, 3, 4, 5, 6, 7, 8, 9, 10, 11, 12, 18, 56, 99} |->
        CASE c = 1 -> "Moskva" [] c = 2 -> "Perm" [] c = 3 -> "Ekaterinburg"
          [] c = 4 -> "Ufa" [] c = 5 -> "Sankt-Peterburg" [] c = 6 -> "Chelyabinsk"
          [] c = 7 -> "Samara" [] c = 8 -> "Nizhny Novgorod" [] c = 9 -> "Novosibirsk"
          [] c = 10 -> "Kazan" [] c = 11 -> "Krasnodar" [] c = 12 -> "Krasnoyarsk"
          [] c = 18 -> "Rostov-na-Donu" [] c = 56 -> "Sochi" [] c = 99 -> "Bez pereleta"]

\* (pattern, id) pairs in the order of the source; two patterns of the source
\* that give the same id and are adjacent are one feature here
DEPARTURE_VALIDATION ==
    << [f |-> "from_1", id |-> 1], [f |-> "from_5", id |-> 5], [f |-> "from_3", id |-> 3],
       [f |-> "from_2", id |-> 2], [f |-> "from_4", id |-> 4], [f |-> "from_6", id |-> 6],
       [f |-> "from_7", id |-> 7], [f |-> "from_8", id |-> 8], [f |-> "from_9", id |-> 9],
       [f |-> "from_10", id |-> 10], [f |-> "from_11", id |-> 11], [f |-> "from_12", id |-> 12],
       [f |-> "from_18", id |-> 18], [f |-> "from_56", id |-> 56], [f |-> "from_99", id |-> 99] >>

DEPARTURE_VERIFY ==
    [c \in DOMAIN DEPARTURE_CITIES |->
        CASE c = 1 -> "names_1" [] c = 2 -> "names_2" [] c = 3 -> "names_3"
          [] c = 4 -> "names_4" [] c = 5 -> "names_5" [] c = 6 -> "names_6"
          [] c = 7 -> "names_7" [] c = 8 -> "names_8" [] c = 9 -> "names_9"
          [] c = 10 -> "names_10" [] c = 11 -> "names_11" [] c = 12 -> "names_12"
          [] c = 18 -> "names_18" [] c = 56 -> "names_56" [] c = 99 -> "names_99"]

\* _safe_int(args.get("departure")): None becomes 0
DepCode(args) == IF Has(args, "departure") THEN args["departure"] ELSE 0

\* id of the first validation pattern found in the text, 0 if none
RECURSIVE FirstValidated(_, _)
FirstValidated(txt, i) ==
    IF i > Len(DEPARTURE_VALIDATION) THEN 0
    ELSE IF DEPARTURE_VALIDATION[i].f \in txt THEN DEPARTURE_VALIDATION[i].id
    ELSE FirstValidated(txt, i + 1)

NotResults(m) == m.role = "user" /\ "results_prefix" \notin m.text

ValidateDeparture(args, hist, lsp) ==
    LET dep_code == DepCode(args)
        model_changed == /\ Has(lsp, "departure")
                         /\ dep_code # lsp["departure"]
                         /\ dep_code \in DOMAIN DEPARTURE_CITIES
        skip_validation == /\ model_changed
                           /\ DEPARTURE_VERIFY[dep_code] \in RecentUserText(hist, 6, NotResults)
        correct == FirstValidated(RecentUserText(hist, 20, NotResults), 1)
    IN  IF ~skip_validation /\ correct # 0 /\ dep_code # correct
        THEN Put(args, "departure", correct)
        ELSE args

DepartureCity(args, city) ==
    IF DepCode(args) \in DOMAIN DEPARTURE_CITIES THEN DEPARTURE_CITIES[DepCode(args)] ELSE city

(***************************************************************************)
(* search_tours: date correctors (yandex_handler.py:1454-1662)             *)
(***************************************************************************)
SanitizeDates(args) ==
    LET a1 == IF Has(args, "datefrom") /\ args["datefrom"].t = "leak" THEN Pop(args, "datefrom") ELSE args
    IN  IF Has(a1, "dateto") /\ a1["dateto"].t = "leak" THEN Pop(a1, "dateto") ELSE a1

\* DD.MM gets the current year, or the next one when that date is not after now
CompleteYear(v) ==
    IF v.t # "dm" THEN v
    ELSE LET this == [t |-> "full", d |-> v.d, m |-> v.m, y |-> Now.y, pad |-> v.pad]
         IN  IF ~Parses(this) THEN v
             ELSE IF Ord(this) <= Ord(Now) THEN [this EXCEPT !.y = Now.y + 1]
             ELSE this

CompleteYears(args) ==
    [k \in DOMAIN args |-> IF k \in {"datefrom", "dateto"} THEN CompleteYear(args[k]) ELSE args[k]]

\* the dateto default and clamp; gives the new arguments and whether the
\* dateto_corrections counter is incremented
FixDateto(args, hist) ==
    LET df == args["datefrom"]
        dto == args["dateto"]
        has_specific_nights == Has(args, "nightsfrom") \/ Has(args, "nightsto")
        explicit_date_range == "explicit_date_range" \in RecentUserText(hist, 20, IsUser)
        span == Ord(dto) - Ord(df)
        nightsfrom_val == OrElse(args, "nightsfrom", 7)
        effective_nights == IF Truthy(args, "nightsto") THEN args["nightsto"]
                            ELSE OrElse(args, "nightsfrom", 7)
        clamp == IF explicit_date_range
                 THEN span > 2 /\ Abs(span - nightsfrom_val) <= 1
                 ELSE span >= 4 /\ Abs(span - effective_nights) <= 2
    IN  IF ~Has(args, "dateto")
        THEN [args |-> Put(args, "dateto", FullDate(df.d, df.m, df.y)), corrected |-> FALSE]
        ELSE IF has_specific_nights /\ clamp
        THEN [args |-> Put(args, "dateto", FullDate(df.d, df.m, df.y)), corrected |-> TRUE]
        ELSE [args |-> args, corrected |-> FALSE]

\* a start date before today moves to tomorrow, and the end date with it
ShiftPast(args) ==
    LET df == args["datefrom"]
        dto == args["dateto"]
        new_datefrom == AddDays(Now, 1)
    IN  IF Ord(df) < Ord(Now)
        THEN LET a1 == Put(args, "datefrom", new_datefrom)
             IN  IF Ord(dto) < Ord(new_datefrom)
                 THEN Put(a1, "dateto", AddDays(new_datefrom, 2))
                 ELSE a1
        ELSE args

\* yandex_handler.py:1481-1574; a date that does not parse leaves the block
\* through its except clause with the arguments as they are
ValidateDateto(args, hist) ==
    IF /\ HasStr(args, "datefrom")
       /\ Parses(args["datefrom"])
       /\ (Has(args, "dateto") => Parses(args["dateto"]))
    THEN LET f == FixDateto(args, hist)
         IN  [args |-> ShiftPast(f.args), corrected |-> f.corrected]
    ELSE [args |-> args, corrected |-> FALSE]

\* "part of month + month" phrases: the feature of the text, the part and the month
MONTH_PARTS ==
    << [f |-> "begin_of_march", part |-> "begin", month |-> 3],
       [f |-> "middle_of_march", part |-> "middle", month |-> 3],
       [f |-> "end_of_december", part |-> "end", month |-> 12],
       [f |-> "begin_of_november", part |-> "begin", month |-> 11],
       [f |-> "first_half_of_february", part |-> "first_half", month |-> 2],
       [f |-> "second_half_of_february", part |-> "second_half", month |-> 2] >>

\* the first month-part phrase of the text (re.search), <<>> if none
RECURSIVE MonthPartOfMsgs(_)
MonthPartOfMsgs(msgs) ==
    IF msgs = <<>> THEN <<>>
    ELSE LET here == SelectSeq(MONTH_PARTS, LAMBDA p : p.f \in Head(msgs).text)
         IN  IF here # <<>> THEN <<Head(here)>> ELSE MonthPartOfMsgs(Tail(msgs))

MonthPartMatch(hist) == MonthPartOfMsgs(SelectSeq(TailN(hist, 20), IsUser))

CorrectMonthPart(args, hist) ==
    IF ~(HasStr(args, "datefrom") /\ HasStr(args, "dateto")) THEN args
    ELSE LET mp == MonthPartMatch(hist)
         IN  IF mp = <<>> THEN args
             ELSE IF ~(Parses(args["datefrom"]) /\ Parses(args["dateto"])) THEN args
             ELSE LET p == mp[1]
                      df == args["datefrom"]
                      date_span == Ord(args["dateto"]) - Ord(df)
                      year == IF df.m = p.month THEN df.y
                              ELSE IF p.month > df.m THEN df.y ELSE df.y + 1
                      last_day == MonthLen(p.month, year)
                      set(d1, d2) == Put(Put(args, "datefrom", FullDate(d1, p.month, year)),
                                         "dateto", FullDate(d2, p.month, year))
                  IN  IF p.part = "begin" /\ date_span # 3 THEN set(1, 4)
                      ELSE IF p.part = "middle" /\ ~(date_span \in 8..12) THEN set(10, 20)
                      ELSE IF p.part = "end" /\ ~(date_span \in 8..14) THEN set(20, last_day)
                      ELSE IF p.part = "first_half" /\ ~(date_span \in 11..15) THEN set(1, 14)
                      ELSE IF p.part = "second_half" /\ ~(date_span \in 11..15) THEN set(15, 28)
                      ELSE args

(***************************************************************************)
(* Messages                                                                *)
(***************************************************************************)
Msg(role, text) == [role |-> role, text |-> text, tool_calls |-> <<>>, tool_call_id |-> ""]

\* user-authored turns of the history, without synthesized function-result turns
\* (content starting with the function-results prefixes, yandex_handler.py:466-467)
IsUserText(m) == m.role = "user" /\ "results_prefix" \notin m.text

UserMessages(hist) == SelectSeq(hist, IsUserText)

UserText(hist) == SeqUnion([i \in 1..Len(UserMessages(hist)) |-> UserMessages(hist)[i].text])

(***************************************************************************)
(* _check_cascade_slots.  The names of the missing slots stand for the     *)
(* Russian slot names of the source, in the order the source appends them: *)
(* departure_city, part_of_month, dates_and_duration / departure_dates,    *)
(* travelers, child_age, then meal_type / hotel_category /                 *)
(* hotel_category_and_meal_type.                                           *)
(***************************************************************************)
DateLooksFull(args) ==
    /\ Has(args, "datefrom")
    /\ args["datefrom"].t = "full"
    /\ args["datefrom"].pad

EarlyPass(args, is_follow_up) ==
    /\ is_follow_up
    /\ Has(args, "departure") /\ args["departure"] > 0
    /\ DateLooksFull(args)
    /\ Has(args, "nightsfrom") /\ args["nightsfrom"] >= 3
    /\ Has(args, "adults") /\ args["adults"] > 0
    /\ \/ Has(args, "stars") /\ args["stars"] > 0
       \/ Has(args, "meal") /\ args["meal"] > 0

\* the hotel-brand mention survives unless the latest get_dictionaries hotel
\* lookup recorded in the history came back empty
RECURSIVE BrandAfterLookup(_, _)
BrandAfterLookup(hist, i) ==
    IF i = 0 THEN TRUE
    ELSE IF /\ hist[i].role = "assistant"
            /\ "calls_get_dictionaries_hotel" \in hist[i].text
            /\ i + 1 <= Len(hist)
            /\ "dictionaries_empty" \in hist[i + 1].text
         THEN FALSE
         ELSE IF /\ hist[i].role = "assistant"
                 /\ "calls_get_dictionaries_hotel" \in hist[i].text
                 /\ i + 1 <= Len(hist)
                 /\ "dictionaries_found" \in hist[i + 1].text
              THEN TRUE
              ELSE BrandAfterLookup(hist, i - 1)

\* index of the last assistant turn that asks the quality question, 0 if none
RECURSIVE LastQcIdx(_, _)
LastQcIdx(hist, i) ==
    IF i = 0 THEN 0
    ELSE IF hist[i].role = "assistant" /\ "qc_question" \in hist[i].text
         THEN i
         ELSE LastQcIdx(hist, i - 1)

QcAsked(hist) ==
    LET recent == TailN(hist, 10)
        asked == \E i \in 1..Len(recent) :
                    /\ recent[i].role = "assistant"
                    /\ "results_prefix" \notin recent[i].text
                    /\ "qc_question" \in recent[i].text
        q == LastQcIdx(hist, Len(hist))
        user_after == /\ q > 0
                      /\ \E j \in (q + 1)..Len(hist) :
                            /\ hist[j].role = "user"
                            /\ "results_prefix" \notin hist[j].text
                            /\ "system_prefix" \notin hist[j].text
    IN  asked /\ user_after

QualityMissing(hist, txt) ==
    LET um == UserMessages(hist)
        has_stars == "stars" \in txt
        has_meal == "meal" \in txt
        has_brand == "brand" \in txt /\ BrandAfterLookup(hist, Len(hist))
        has_skip == um # <<>> /\ "skip" \in Last(um).text
        passed == (has_stars /\ has_meal) \/ has_skip \/ (has_brand /\ has_meal)
    IN  IF passed \/ QcAsked(hist) THEN <<>>
        ELSE IF has_brand /\ ~has_meal /\ ~has_skip THEN <<"meal_type">>
        ELSE IF has_stars /\ ~has_meal THEN <<"meal_type">>
        ELSE IF has_meal /\ ~has_stars THEN <<"hotel_category">>
        ELSE <<"hotel_category_and_meal_type">>

MissingSlots(hist, args) ==
    LET txt == UserText(hist)
        has_specific_date == "specific_date" \in txt
        has_bare_month == "bare_month" \in txt
        has_date == has_specific_date \/ has_bare_month
        has_nights == "nights" \in txt
        child_count == IF Has(args, "child") THEN args["child"] ELSE 0
        has_childage == \E k \in {"childage1", "childage2", "childage3"} : Truthy(args, k)
    IN  (IF "departure" \in txt THEN <<>> ELSE <<"departure_city">>)
        \o (IF has_bare_month /\ ~has_specific_date /\ "month_qualifier" \notin txt
            THEN <<"part_of_month">> ELSE <<>>)
        \o (IF ~has_date /\ ~has_nights THEN <<"dates_and_duration">>
            ELSE IF ~has_date THEN <<"departure_dates">> ELSE <<>>)
        \o (IF "travelers" \in txt THEN <<>> ELSE <<"travelers">>)
        \o (IF child_count > 0 /\ ~has_childage /\ "child_age" \notin txt
            THEN <<"child_age">> ELSE <<>>)
        \o QualityMissing(hist, txt)

check_cascade_slots(hist, args, is_follow_up) ==
    IF EarlyPass(args, is_follow_up)
    THEN [complete |-> TRUE, missing |-> <<>>]
    ELSE LET missing == MissingSlots(hist, args)
         IN  [complete |-> missing = <<>>, missing |-> missing]

(***************************************************************************)
(* Session state of one handler, as a record, for the functional           *)
(* definitions of the dispatcher.  NoneInt is Python's None where an       *)
(* integer is stored under a key that is always present.                   *)
(***************************************************************************)
NoneInt == 0 - 1

GetOrNone(f, k) == IF Has(f, k) THEN f[k] ELSE NoneInt

EmptyArgs == [k \in {} |-> 0]

Inc(m, k) == IF k \in DOMAIN m THEN [m EXCEPT ![k] = @ + 1] ELSE Put(m, k, 1)

InitMetrics ==
    [k \in {"promised_search_detections", "cascade_incomplete_detections",
            "dateto_corrections", "total_searches", "total_messages"} |-> 0]

\* the result of a dispatch that made no call and changed nothing but what S says
Outcome(S, result, calls) == [S |-> S, result |-> result, calls |-> calls]

(***************************************************************************)
(* search_tours: region checks (yandex_handler.py:1664-1849)               *)
(***************************************************************************)
DropRegionsEqualCountry(args) ==
    IF Truthy(args, "regions") /\ Truthy(args, "country") /\ args["regions"] = args["country"]
    THEN Pop(args, "regions") ELSE args

\* resort patterns in the order of the source: a resort with a known region id
\* and one whose region id is looked up through the API (region_id = 0)
RESORT_PATTERNS ==
    << [f |-> "resort_kemer", region_id |-> 22, country |-> 4],
       [f |-> "resort_dahab", region_id |-> 0, country |-> 1] >>

NotFunctionResults(m) == m.role = "user" /\ "results_prefix" \notin m.text

MentionedResort(hist) ==
    SelectSeq(RESORT_PATTERNS, LAMBDA r : r.f \in RecentUserText(hist, 20, NotFunctionResults))

\* region id found by the fuzzy lookup in the answer of get_regions
RegionFound == 7

\* gives the arguments, the metrics, the client calls made and whether the
\* dispatch ends here with the resort error
ResolveResort(args, hist, metrics, regions_resp) ==
    IF Truthy(args, "regions") \/ Truthy(args, "subregions") \/ Truthy(args, "hotels")
       \/ MentionedResort(hist) = <<>>
    THEN [args |-> args, metrics |-> metrics, calls |-> <<>>, blocked |-> FALSE]
    ELSE LET r == MentionedResort(hist)[1]
             m1 == Inc(metrics, "resort_without_region_detections")
             a1 == IF (IF Has(args, "country") THEN args["country"] ELSE 0) # r.country
                   THEN Put(args, "country", r.country) ELSE args
             call == <<[fn |-> "get_regions", arg |-> r.country]>>
         IN  IF r.region_id # 0
             THEN [args |-> Put(a1, "regions", r.region_id), metrics |-> m1,
                   calls |-> <<>>, blocked |-> FALSE]
             ELSE IF regions_resp = "found"
             THEN [args |-> Put(a1, "regions", RegionFound), metrics |-> m1,
                   calls |-> call, blocked |-> FALSE]
             ELSE [args |-> a1, metrics |-> m1, calls |-> call, blocked |-> TRUE]

(***************************************************************************)
(* search_tours: fallback from the parameter cache, cascade gate           *)
(* (yandex_handler.py:1851-1922)                                           *)
(***************************************************************************)
CACHE_KEYS ==
    {"departure", "datefrom", "dateto", "nightsfrom", "nightsto", "adults", "child",
     "childage1", "childage2", "childage3", "stars", "starsbetter", "meal", "mealbetter"}

CASCADE_SAVEABLE == CACHE_KEYS \cup {"country", "regions", "hotels"}

RestoreFromCache(args, lsp) ==
    IF lsp = EmptyArgs THEN args
    ELSE LET restored == [k \in (DOMAIN args) \cup (CACHE_KEYS \cap DOMAIN lsp) |->
                             IF Has(args, k) THEN args[k] ELSE lsp[k]]
         IN  IF /\ GetOrNone(restored, "country") # GetOrNone(lsp, "_country")
                /\ Has(restored, "regions")
                /\ restored["regions"] = GetOrNone(lsp, "_regions")
             THEN Pop(restored, "regions")
             ELSE restored

PreSaveOverwriting(args, lsp) ==
    [k \in (DOMAIN lsp) \cup (CASCADE_SAVEABLE \cap DOMAIN args) |->
        IF Has(args, k) /\ k \in CASCADE_SAVEABLE THEN args[k] ELSE lsp[k]]

\* Fix F5: a blocked call leaves its parameters in the cache
PreSave(args, lsp) ==
    [k \in (DOMAIN lsp) \cup (CASCADE_SAVEABLE \cap DOMAIN args) |->
        IF Has(lsp, k) THEN lsp[k] ELSE args[k]]

IsFollowUp(lsp) == lsp # EmptyArgs

(***************************************************************************)
(* search_tours: correctors after the gate (yandex_handler.py:1924-2032)   *)
(***************************************************************************)
FixNights(args) ==
    LET a1 == IF Has(args, "nightsfrom") /\ args["nightsfrom"] < 3
              THEN Put(args, "nightsfrom", 3) ELSE args
    IN  IF Has(args, "nightsfrom") /\ Has(args, "nightsto") /\ args["nightsfrom"] > args["nightsto"]
        THEN Put(a1, "nightsfrom", args["nightsto"])
        ELSE a1

DefaultMealbetter(args) ==
    IF Has(args, "meal") /\ ~Has(args, "mealbetter") THEN Put(args, "mealbetter", 0) ELSE args

\* the last user turn among the last four turns expresses indifference
IsSkipQc(hist) ==
    LET um == SelectSeq(TailN(hist, 4), IsUser)
    IN  um # <<>> /\ "skip_qc" \in Last(um).text

FixStars(args, hist) ==
    IF ~Has(args, "stars") THEN args
    ELSE IF IsSkipQc(hist)
    THEN [k \in (DOMAIN args) \ {"stars", "starsbetter", "meal", "mealbetter"} |-> args[k]]
    ELSE IF ~Has(args, "starsbetter") THEN Put(args, "starsbetter", 0)
    ELSE IF args["starsbetter"] = 1 /\ "wants_better" \notin RecentUserText(hist, 20, IsUser)
    THEN Put(args, "starsbetter", 0)
    ELSE args

\* "N days" said by the user without the word for nights
SaidDays == 7

FixDays(args, hist) ==
    LET txt == RecentUserText(hist, 6, IsUser)
    IN  IF /\ Has(args, "nightsto") /\ Has(args, "nightsfrom")
           /\ "says_days" \in txt /\ "says_nights" \notin txt
           /\ args["nightsto"] = SaidDays /\ args["nightsfrom"] = SaidDays
           /\ SaidDays - 1 >= 3
        THEN Put(args, "nightsfrom", SaidDays - 1)
        ELSE args

FixPrice(args, hist) ==
    IF /\ Truthy(args, "priceto") /\ ~Truthy(args, "pricefrom")
       /\ "around_price" \in RecentUserText(hist, 20, IsUser)
    THEN Put(Put(args, "priceto", (args["priceto"] * 12) \div 10),
             "pricefrom", (args["priceto"] * 8) \div 10)
    ELSE args

AfterGate(args, hist) ==
    FixPrice(FixDays(FixStars(DefaultMealbetter(FixNights(args)), hist), hist), hist)

(***************************************************************************)
(* search_tours: submission (yandex_handler.py:2053-2125)                  *)
(***************************************************************************)
\* the keyword arguments given to TourVisorClient.search_tours, with the
\* defaults of the call for the keys the repaired arguments lack; the result
\* of Submit also records the repaired arguments themselves (repaired)
SubmittedParams(args) ==
    LET a1 == IF Has(args, "nightsfrom") THEN args ELSE Put(args, "nightsfrom", 7)
        a2 == IF Has(a1, "nightsto") THEN a1 ELSE Put(a1, "nightsto", 10)
        a3 == IF Has(a2, "adults") THEN a2 ELSE Put(a2, "adults", 2)
    IN  IF Has(a3, "child") THEN a3 ELSE Put(a3, "child", 0)

\* TourVisorClient.search_tours (tourvisor_client.py:331-360): the dates of
\* the request to search.php.  A missing start date is tomorrow, a missing
\* end date is the start date, and an end date before the start date becomes
\* the start date when both parse; a date that does not parse leaves the
\* comparison through its except clause.
RequestParams(params) ==
    LET date_from == IF HasStr(params, "datefrom") THEN params["datefrom"] ELSE AddDays(Now, 1)
        date_to == IF HasStr(params, "dateto") THEN params["dateto"] ELSE date_from
    IN  Put(Put(params, "datefrom", date_from), "dateto",
            IF Parses(date_from) /\ Parses(date_to) /\ Ord(date_to) < Ord(date_from)
            THEN date_from ELSE date_to)

CachedParamsAsPassed(args) ==
    LET kept == [k \in CACHE_KEYS \cap DOMAIN args |-> IF k = "nightsfrom" THEN 0 ELSE args[k]]
    IN  Put(Put(kept, "_country", GetOrNone(args, "country")), "_regions", GetOrNone(args, "regions"))

CachedParams(args) ==
    LET kept == [k \in CACHE_KEYS \cap DOMAIN args |-> args[k]]
        c1 == Put(Put(kept, "_country", GetOrNone(args, "country")),
                  "_regions", GetOrNone(args, "regions"))
    IN  IF Truthy(args, "hotels") THEN Put(c1, "_hotels", args["hotels"]) ELSE c1

Submit(S, args, search_resp, calls) ==
    LET m1 == Inc(S.metrics, "total_searches")
        call == <<[fn |-> "search_tours", arg |-> SubmittedParams(args), ret |-> search_resp]>>
    IN  IF search_resp.kind = "raise"
        THEN Outcome([S EXCEPT !.metrics = m1], [kind |-> "exception", repaired |-> args],
                     calls \o call)
        ELSE IF search_resp.kind = "none"
        THEN Outcome([S EXCEPT !.metrics = m1], [kind |-> "error_no_request", repaired |-> args],
                     calls \o call)
        ELSE Outcome([S EXCEPT !.metrics = m1,
                               !.rid = search_resp.id,
                               !.tmap = EmptyArgs,
                               !.budget = IF Truthy(args, "priceto") THEN args["priceto"] ELSE @,
                               !.lsp = CachedParams(args),
                               !.ideal = [datefrom |-> IF Has(args, "datefrom") THEN <<args["datefrom"]>> ELSE <<>>,
                                          nightsfrom |-> <<OrElse(args, "nightsfrom", 0)>>,
                                          nightsto |-> <<OrElse(args, "nightsto", 0)>>,
                                          has_budget |-> Truthy(args, "pricefrom") \/ Truthy(args, "priceto")],
                               !.awaiting = TRUE],
                     [kind |-> "requestid", requestid |-> search_resp.id, repaired |-> args],
                     calls \o call)

(***************************************************************************)
(* _dispatch_function, name = "search_tours" (yandex_handler.py:1382-2125) *)
(***************************************************************************)
\* the steps of the branch, each given what the steps before it computed:
\* the gate and the submission (yandex_handler.py:1873-2125)
GateAndSubmit(S3, r, a4, gate, hist, env) ==
    IF r.blocked
    THEN Outcome(S3, [kind |-> "error_resort"], r.calls)
    ELSE IF ~gate.complete
    THEN Outcome([S3 EXCEPT !.metrics = Inc(@, "cascade_incomplete_detections"),
                            !.lsp = PreSave(a4, @)],
                 [kind |-> "error_cascade", missing |-> gate.missing[1]],
                 r.calls)
    ELSE Submit(S3, AfterGate(a4, hist), env.search_resp, r.calls)

\* the completeness gate (yandex_handler.py:1871-1880)
FromCache(S3, r, a4, hist, env) ==
    GateAndSubmit(S3, r, a4, check_cascade_slots(hist, a4, IsFollowUp(S3.lsp)), hist, env)

\* the fallback from the parameter cache (yandex_handler.py:1851-1869)
FromResort(S2, r, hist, env) ==
    FromCache([S2 EXCEPT !.metrics = r.metrics], r, RestoreFromCache(r.args, S2.lsp), hist, env)

\* the resort named in the conversation (yandex_handler.py:1676-1849)
FromMonthPart(S2, a3, hist, env) ==
    FromResort(S2, ResolveResort(a3, hist, S2.metrics, env.regions_resp), hist, env)

\* the end date, the part of the month, the regions (yandex_handler.py:1481-1674)
FromDateto(S1, v, hist, env) ==
    FromMonthPart(IF v.corrected THEN [S1 EXCEPT !.metrics = Inc(@, "dateto_corrections")] ELSE S1,
                  DropRegionsEqualCountry(CorrectMonthPart(v.args, hist)), hist, env)

\* the departure city and the dates (yandex_handler.py:1448-1479)
FromDeparture(S, a1, hist, env) ==
    FromDateto([S EXCEPT !.city = DepartureCity(a1, S.city)],
               ValidateDateto(CompleteYears(SanitizeDates(a1)), hist), hist, env)

DispatchSearchToursFrom(S, a0, hist, env) ==
    FromDeparture(S, ValidateDeparture(a0, hist, S.lsp), hist, env)

DispatchSearchTours(S, args, hist, env) ==
    IF Has(args, "departure_array")
    THEN Outcome(S, [kind |-> "error_departure_array"], <<>>)
    ELSE DispatchSearchToursFrom(S, args, hist, env)

(***************************************************************************)
(* Identifiers.  A request handle or an offer id is a Python string, here  *)
(* the sequence of its characters; the empty sequence is also None where   *)
(* the source only tests truthiness.                                       *)
(***************************************************************************)
Digits == {"0", "1", "2", "3", "4", "5", "6", "7", "8", "9"}

StripSpaces(s) == SelectSeq(s, LAMBDA c : c # " ")

\* s.replace(" ", "").isdigit()
IsDigitStr(s) ==
    LET t == StripSpaces(s)
    IN  t # <<>> /\ \A i \in 1..Len(t) : t[i] \in Digits

LowerChar(c) ==
    CASE c = "T" -> "t" [] c = "R" -> "r" [] c = "E" -> "e" [] OTHER -> c

Lower(s) == [i \in 1..Len(s) |-> LowerChar(s[i])]

\* kw in text
Contains(text, kw) ==
    \E i \in 0..(Len(text) - Len(kw)) : SubSeq(text, i + 1, i + Len(kw)) = kw

GetStr(args, k) == IF Has(args, k) THEN args[k] ELSE <<>>

\* ordinal words (transliterated) and digits in the order of the dict of the source
ORDINAL_MAP ==
    << [kw |-> <<"p", "e", "r", "v">>, pos |-> 1], [kw |-> <<"1">>, pos |-> 1],
       [kw |-> <<"v", "t", "o", "r">>, pos |-> 2], [kw |-> <<"2">>, pos |-> 2],
       [kw |-> <<"t", "r", "e", "t">>, pos |-> 3],
       [kw |-> <<"t", "r", "e", "t", "e", "g", "o">>, pos |-> 3],
       [kw |-> <<"3">>, pos |-> 3],
       [kw |-> <<"c", "h", "e", "t", "v", "e", "r", "t">>, pos |-> 4],
       [kw |-> <<"c", "h", "e", "t", "v", "y", "o", "r", "t">>, pos |-> 4],
       [kw |-> <<"4">>, pos |-> 4],
       [kw |-> <<"p", "y", "a", "t">>, pos |-> 5], [kw |-> <<"5">>, pos |-> 5] >>

resolve_tourid_first_position(tmap, placeholder) ==
    IF 1 \in DOMAIN tmap THEN tmap[1].tourid ELSE <<>>

\* _resolve_tourid_from_text: the offer id, or <<>> for None
resolve_tourid_from_text(tmap, placeholder) ==
    IF tmap = EmptyArgs THEN <<>>
    ELSE LET placeholder_lower == Lower(placeholder)
             hits == SelectSeq(ORDINAL_MAP,
                               LAMBDA e : Contains(placeholder_lower, e.kw) /\ e.pos \in DOMAIN tmap)
         IN  IF hits # <<>> THEN tmap[hits[1].pos].tourid
             ELSE IF 1 \in DOMAIN tmap THEN tmap[1].tourid
             ELSE <<>>

(***************************************************************************)
(* _dispatch_function, the branches that take a request handle             *)
(* (yandex_handler.py:2127-2257, 2259-2447, 2873-2886)                     *)
(***************************************************************************)
Call(fn, arg) == <<[fn |-> fn, arg |-> arg]>>

\* an answer of result.php?type=status, or the exception of the call
Status(state, hotels, tours, progress) ==
    [state |-> state, hotels |-> hotels, tours |-> tours, progress |-> progress]

\* status_resp is what the client answers while a search is polled: early
\* holds the answers to the first polls, rest is the answer to every later
\* poll, secs is the time one call takes
Polls(early, rest, secs) == [early |-> early, rest |-> rest, secs |-> secs]

AnswerAt(status_resp, k) ==
    IF k <= Len(status_resp.early) THEN status_resp.early[k] ELSE status_resp.rest

\* max_wait and poll_interval of the get_search_status branch
\* (yandex_handler.py:2154-2155)
MAX_WAIT == 60

POLL_INTERVAL == 3

\* what polling ended with: the kind of the result, the hint put into the
\* status, the last status seen, the number of polls made and whether the
\* wait ran out
Polled(kind, hint, seen, polls, timed_out) ==
    [kind |-> kind, hint |-> hint, seen |-> seen, polls |-> polls, timed_out |-> timed_out]

NoStatus == Status("none", 0, 0, 0)

\* the polling loop of the get_search_status branch (yandex_handler.py:2151-2257):
\* k polls were made, elapsed is the time slept, seen is the last status
RECURSIVE PollStatus(_, _, _, _), PollStatusAnswered(_, _, _, _)
PollStatus(status_resp, k, elapsed, seen) ==
    IF elapsed >= MAX_WAIT
    THEN Polled("status", IF seen.hotels > 0 THEN "timeout_partial" ELSE "timeout_empty",
                seen, k, TRUE)
    ELSE PollStatusAnswered(status_resp, k + 1, elapsed, AnswerAt(status_resp, k + 1))

PollStatusAnswered(status_resp, k, elapsed, a) ==
    IF a.state = "raise" THEN Polled("exception", "none", a, k, FALSE)
    ELSE IF a.state = "finished"
    THEN IF a.hotels = 0 \/ a.tours = 0
         THEN Polled("no_results_error", "none", a, k, FALSE)
         ELSE Polled("status", "finished", a, k, FALSE)
    ELSE IF a.state = "no search results" THEN Polled("status", "not_found", a, k, FALSE)
    ELSE IF \/ a.hotels >= 3 /\ a.progress >= 40
            \/ a.hotels >= 1 /\ a.tours >= 20 /\ a.progress >= 30
            \/ a.hotels >= 1 /\ elapsed >= 12
    THEN Polled("status", "partial", a, k, FALSE)
    ELSE PollStatus(status_resp, k, elapsed + POLL_INTERVAL, a)

\* the calls of the client that k polls are
StatusCalls(fn, arg, k) == [i \in 1..k |-> [fn |-> fn, arg |-> arg]]

AfterPolling(S1, used, r) == Outcome(S1, r, StatusCalls("get_search_status", used, r.polls))

DispatchGetSearchStatus(S, args, status_resp) ==
    LET request_id == GetStr(args, "requestid")
        rejected == ~IsDigitStr(request_id)
        S1 == IF rejected THEN [S EXCEPT !.metrics = Inc(@, "placeholder_id_rejections")] ELSE S
        used == IF rejected THEN S.rid ELSE request_id
    IN  IF rejected /\ S.rid = <<>>
        THEN Outcome(S1, [kind |-> "error_requestid"], <<>>)
        ELSE AfterPolling(S1, used, PollStatus(status_resp, 0, 0, NoStatus))

(***************************************************************************)
(* TourVisorClient.wait_for_search (tourvisor_client.py:464-525), with its *)
(* default max_wait, poll_interval and thresholds of early return.  The    *)
(* time that has passed is the time of the calls and of the sleeps.        *)
(***************************************************************************)
WAIT_MAX_WAIT == 30

WAIT_POLL_INTERVAL == 1

EARLY_RETURN_HOTELS == 5

EARLY_RETURN_PROGRESS == 50

\* return await self.get_search_results(request_id)
WaitResults(results_resp, seen, k, timed_out) ==
    Polled(IF results_resp = "raise" THEN "exception" ELSE "results", "none", seen, k, timed_out)

RECURSIVE WaitPoll(_, _, _, _, _), WaitAnswered(_, _, _, _, _)
WaitPoll(status_resp, results_resp, k, elapsed, seen) ==
    IF elapsed >= WAIT_MAX_WAIT
    THEN IF seen.hotels = 0 THEN Polled("no_results_error", "none", seen, k, TRUE)
         ELSE WaitResults(results_resp, seen, k, TRUE)
    ELSE WaitAnswered(status_resp, results_resp, k + 1, elapsed + status_resp.secs,
                      AnswerAt(status_resp, k + 1))

WaitAnswered(status_resp, results_resp, k, elapsed, a) ==
    IF a.state \in {"raise", "no search results"} THEN Polled("exception", "none", a, k, FALSE)
    ELSE IF a.state = "finished"
    THEN IF a.hotels = 0 \/ a.tours = 0
         THEN Polled("no_results_error", "none", a, k, FALSE)
         ELSE WaitResults(results_resp, a, k, FALSE)
    ELSE IF a.hotels >= EARLY_RETURN_HOTELS /\ a.progress >= EARLY_RETURN_PROGRESS
    THEN WaitResults(results_resp, a, k, FALSE)
    ELSE WaitPoll(status_resp, results_resp, k, elapsed + WAIT_POLL_INTERVAL, a)

wait_for_search(S, request_id, status_resp, results_resp) ==
    AfterPolling(S, request_id, WaitPoll(status_resp, results_resp, 0, 0, NoStatus))

\* stable insertion of the keyed item x into a sequence sorted by key
RECURSIVE InsertSorted(_, _)
InsertSorted(x, sorted) ==
    IF sorted = <<>> THEN <<x>>
    ELSE IF x.key < Head(sorted).key THEN <<x>> \o sorted
    ELSE <<Head(sorted)>> \o InsertSorted(x, Tail(sorted))

\* list.sort(key=...) on items [key, item]
RECURSIVE SortKeyed(_)
SortKeyed(s) ==
    IF s = <<>> THEN <<>>
    ELSE InsertSorted(Last(s), SortKeyed(SubSeq(s, 1, Len(s) - 1)))

SortBy(s, Key(_)) ==
    LET keyed == SortKeyed([i \in 1..Len(s) |-> [key |-> Key(s[i]), item |-> s[i]]])
    IN  [i \in 1..Len(keyed) |-> keyed[i].item]

\* offers kept for the cards and for the tour index
TopN == 5

\* prices stay below this, so that (relevance, price) is one integer key
PriceCap == 1000

\* _safe_int(best_tour.get("price"), 999999999) of a hotel without tours: above
\* every price
NoPrice == PriceCap - 1

\* a tour of a hotel of the answer
Tour(tourid, nights, flydate, price) ==
    [tourid |-> tourid, nights |-> nights, flydate |-> flydate, price |-> price]

\* abs((fly - ideal).days), 99 when a date does not parse
\* (yandex_handler.py:856-861, 2348-2353)
DateDiff(flydate, datefrom) ==
    IF Parses(flydate) /\ Parses(datefrom) THEN Abs(Ord(flydate) - Ord(datefrom)) ELSE 99

\* _nights_penalty (yandex_handler.py:817-830), doubled so that its halves
\* are integers; nf and nt are <<>> for None
nights_penalty(nights, nf, nt) ==
    IF nf = <<>> /\ nt = <<>> THEN 0
    ELSE LET lo == IF nf # <<>> THEN nf[1] ELSE nt[1]
             hi == IF nt # <<>> THEN nt[1] ELSE nf[1]
         IN  IF lo <= nights /\ nights <= hi THEN hi - nights
             ELSE 4 * Min(Abs(nights - lo), Abs(nights - hi))

\* the tier of _pick_best_tour (yandex_handler.py:864-869): "nightsfrom and
\* nightsto" is false for None and for 0
NightsTier(nights, nf, nt) ==
    IF nf # <<>> /\ nt # <<>> /\ nf # <<0>> /\ nt # <<0>>
    THEN IF nf[1] <= nights /\ nights <= nt[1] THEN nt[1] - nights
         ELSE 100 + Min(Abs(nights - nf[1]), Abs(nights - nt[1]))
    ELSE 0

\* _pick_best_tour (yandex_handler.py:833-875); <<>> is the {} of a hotel
\* without tours, else the result is <<tour>>
pick_best_tour(tours, I) ==
    IF tours = <<>> THEN <<>>
    ELSE IF I.datefrom = <<>> /\ I.nightsfrom = <<>> /\ I.nightsto = <<>> THEN <<tours[1]>>
    ELSE LET date_diff(t) == IF I.datefrom # <<>> /\ Parses(I.datefrom[1])
                             THEN DateDiff(t.flydate, I.datefrom[1]) ELSE 0
             key(t) == (NightsTier(t.nights, I.nightsfrom, I.nightsto) * 100 + date_diff(t))
                          * PriceCap + t.price
         IN  <<SortBy(tours, key)[1]>>

\* _rel_score (yandex_handler.py:2339-2353), doubled as nights_penalty is
RelScore(best, I) ==
    IF best = <<>> THEN 0
    ELSE nights_penalty(best[1].nights, I.nightsfrom, I.nightsto) * 15
            + (IF I.datefrom # <<>> THEN 2 * DateDiff(best[1].flydate, I.datefrom[1]) ELSE 0)

\* the entry of a hotel with the tour picked for it, its score and its price
\* (yandex_handler.py:2288-2355)
ScoredHotel(h, best, I) ==
    [hotelcode |-> h.hotelcode,
     tourid |-> IF best = <<>> THEN <<>> ELSE best[1].tourid,
     nights |-> IF best = <<>> THEN <<>> ELSE <<best[1].nights>>,
     price |-> IF best = <<>> THEN NoPrice ELSE best[1].price,
     rel |-> RelScore(best, I)]

\* the five hotels kept, in the order of the sort (yandex_handler.py:2364-2377)
RankHotels(S, hotels) ==
    LET byPrice(h) == h.price
        byRelevance(h) == h.rel * PriceCap + h.price
        scored == [i \in 1..Len(hotels) |->
                      ScoredHotel(hotels[i], pick_best_tour(hotels[i].tours, S.ideal), S.ideal)]
        ranked == IF ~S.ideal.has_budget /\ S.ideal.datefrom # <<>>
                  THEN SortBy(scored, byRelevance)
                  ELSE SortBy(scored, byPrice)
    IN  SubSeq(ranked, 1, IF Len(ranked) < TopN THEN Len(ranked) ELSE TopN)

\* _map_hotel_to_card (yandex_handler.py:878-918): the hotel, the id
\* str(tourid or "") and the nights of the card, 7 without a tour
map_hotel_to_card(h) ==
    [hotel |-> h.hotelcode, id |-> h.tourid, nights |-> IF h.nights = <<>> THEN 7 ELSE h.nights[1]]

\* the hotels of the answer to the model (yandex_handler.py:2405-2412)
AiHotels(simplified) ==
    [i \in 1..Len(simplified) |->
        [hotelcode |-> simplified[i].hotelcode, tourid |-> simplified[i].tourid]]

TourIndexCompacted(simplified) ==
    LET offers == SelectSeq(simplified, LAMBDA h : h.tourid # <<>>)
    IN  [i \in 1..Len(offers) |-> [tourid |-> offers[i].tourid, hotelcode |-> offers[i].hotelcode]]

\* _tourid_map: the offers by display position, the hotels without an offer
\* id left out (yandex_handler.py:2414-2423)
TourIndex(simplified) ==
    [i \in {j \in 1..Len(simplified) : simplified[j].tourid # <<>>} |->
        [tourid |-> simplified[i].tourid, hotelcode |-> simplified[i].hotelcode]]

\* the cards and the tour index built from the hotels kept
\* (yandex_handler.py:2379-2423)
WithCards(S, simplified) ==
    [S EXCEPT !.cards = [i \in 1..Len(simplified) |-> map_hotel_to_card(simplified[i])],
              !.tmap = TourIndex(simplified)]

\* results_resp is the answer of the client with its list of hotels, or its exception
DispatchGetSearchResults(S, args, results_resp) ==
    LET S0 == [S EXCEPT !.awaiting = FALSE]
        rid == GetStr(args, "requestid")
        rejected == ~IsDigitStr(rid)
        S1 == IF rejected THEN [S0 EXCEPT !.metrics = Inc(@, "placeholder_id_rejections")] ELSE S0
        used == IF rejected THEN S.rid ELSE rid
    IN  IF rejected /\ S.rid = <<>>
        THEN Outcome(S1, [kind |-> "error_requestid"], <<>>)
        ELSE IF results_resp.kind = "raise"
        THEN Outcome(S1, [kind |-> "exception"], Call("get_search_results", used))
        ELSE Outcome(WithCards(S1, RankHotels(S1, results_resp.hotels)),
                     [kind |-> "hotels", hotels |-> AiHotels(RankHotels(S1, results_resp.hotels))],
                     Call("get_search_results", used))

DispatchContinueSearchAsGiven(S, args, continue_resp) ==
    IF continue_resp = "raise"
    THEN Outcome(S, [kind |-> "exception"], Call("continue_search", GetStr(args, "requestid")))
    ELSE Outcome(S, [kind |-> "page"], Call("continue_search", GetStr(args, "requestid")))

DispatchContinueSearch(S, args, continue_resp) ==
    LET rid == GetStr(args, "requestid")
        rejected == ~IsDigitStr(rid)
        used == IF rejected THEN S.rid ELSE rid
    IN  IF rejected /\ S.rid = <<>>
        THEN Outcome(S, [kind |-> "error_requestid"], <<>>)
        ELSE IF continue_resp = "raise"
        THEN Outcome(S, [kind |-> "exception"], Call("continue_search", used))
        ELSE Outcome(S, [kind |-> "page"], Call("continue_search", used))

(***************************************************************************)
(* _dispatch_function, get_hot_tours (yandex_handler.py:2682-2871)         *)
(***************************************************************************)
\* tours[:7] (yandex_handler.py:2754)
HOT_TOURS_MAX == 7

\* _map_hot_tour_to_card (yandex_handler.py:933-966): the hotel, the id
\* str(tourid or "") and the nights of the card
map_hot_tour_to_card(t) == [hotel |-> t.hotelcode, id |-> t.tourid, nights |-> t.nights]

\* P14: tourtype 1 when the user spoke of the sea and the model passed none
HotTourType(args, hist) ==
    IF ~Truthy(args, "tourtype") /\ "sea" \in UserText(hist) THEN 1
    ELSE IF Has(args, "tourtype") THEN args["tourtype"] ELSE 0

\* hot_resp is the answer of the client with its list of hot tours, or its
\* exception.  The branch writes _pending_tour_cards and no other field.
DispatchGetHotTours(S, args, hist, hot_resp) ==
    LET asked == Call("get_hot_tours", Put(args, "tourtype", HotTourType(args, hist)))
        simplified == SubSeq(hot_resp.tours, 1,
                             IF Len(hot_resp.tours) < HOT_TOURS_MAX THEN Len(hot_resp.tours)
                             ELSE HOT_TOURS_MAX)
    IN  IF "departure" \notin UserText(hist)
        THEN Outcome(S, [kind |-> "error_departure"], <<>>)
        ELSE IF hot_resp.kind = "raise"
        THEN Outcome(S, [kind |-> "exception"], asked)
        ELSE IF hot_resp.tours = <<>>
        THEN Outcome([S EXCEPT !.cards = <<>>], [kind |-> "hot_tours", tours |-> <<>>], asked)
        ELSE Outcome([S EXCEPT !.cards = [i \in 1..Len(simplified) |-> map_hot_tour_to_card(simplified[i])]],
                     [kind |-> "hot_tours", tours |-> AiHotels(simplified)], asked)

(***************************************************************************)
(* _dispatch_function, the branches that take an offer id                  *)
(* (yandex_handler.py:2530-2610)                                           *)
(***************************************************************************)
\* a call of the client with what it answered
Asked(fn, arg, ret) == <<[fn |-> fn, arg |-> arg, ret |-> ret]>>

\* actualize_resp: "ok", "expired" (the API names the TourID in its
\* errormessage, TourIdExpiredError), "raise" (any other exception)
DispatchActualizeTour(S, args, actualize_resp) ==
    LET tid == GetStr(args, "tourid")
        rejected == ~IsDigitStr(tid)
        S1 == IF rejected THEN [S EXCEPT !.metrics = Inc(@, "placeholder_id_rejections")] ELSE S
        resolved == resolve_tourid_from_text(S.tmap, tid)
        used == IF rejected THEN resolved ELSE tid
    IN  IF rejected /\ resolved = <<>>
        THEN Outcome(S1, [kind |-> "error_tourid"], <<>>)
        ELSE IF actualize_resp = "raise"
        THEN Outcome(S1, [kind |-> "exception"], Asked("actualize_tour", used, actualize_resp))
        ELSE IF actualize_resp = "expired"
        THEN Outcome(S1, [kind |-> "expired_error"], Asked("actualize_tour", used, actualize_resp))
        ELSE Outcome(S1, [kind |-> "tour", of |-> used], Asked("actualize_tour", used, actualize_resp))

\* offer ids of the other indexed positions, in the order of the positions
AlternativeTourids(tmap, current) ==
    LET pos == SelectSeq([i \in 1..TopN |-> i], LAMBDA i : i \in DOMAIN tmap /\ tmap[i].tourid # current)
    IN  [i \in 1..Len(pos) |-> tmap[pos[i]].tourid]

\* the answer of actdetail.php returned to the model: the offer it describes
\* (of) and whether it is the iserror answer of the API
Details(of, iserror) == [kind |-> "details", iserror |-> iserror, of |-> of]

\* details_resp is the answer to the first query: "ok", "iserror" (the
\* top-level iserror of actdetail.php, which _check_api_error only logs),
\* "expired" (TourIdExpiredError), "raise"; alt_resps are the answers to the
\* queries for the alternatives tried after an iserror answer
DispatchGetTourDetails(S, args, details_resp, alt_resps) ==
    LET tid == GetStr(args, "tourid")
        rejected == ~IsDigitStr(tid)
        S1 == IF rejected THEN [S EXCEPT !.metrics = Inc(@, "placeholder_id_rejections")] ELSE S
        resolved == resolve_tourid_from_text(S.tmap, tid)
        used == IF rejected THEN resolved ELSE tid
        first == Asked("get_tour_details", used, details_resp)
        alts == AlternativeTourids(S.tmap, used)
        alt(i) == Asked("get_tour_details", alts[i], alt_resps[i])
    IN  IF rejected /\ resolved = <<>>
        THEN Outcome(S1, [kind |-> "error_tourid"], <<>>)
        ELSE IF details_resp = "raise"
        THEN Outcome(S1, [kind |-> "exception"], first)
        ELSE IF details_resp = "expired"
        THEN Outcome(S1, [kind |-> "expired_error"], first)
        ELSE IF details_resp = "ok" \/ S.tmap = EmptyArgs \/ alts = <<>>
        THEN Outcome(S1, Details(used, details_resp = "iserror"), first)
        ELSE IF alt_resps[1] = "ok"
        THEN Outcome(S1, Details(alts[1], FALSE), first \o alt(1))
        ELSE IF Len(alts) = 1
        THEN Outcome(S1, Details(used, TRUE), first \o alt(1))
        ELSE IF alt_resps[2] = "ok"
        THEN Outcome(S1, Details(alts[2], FALSE), first \o alt(1) \o alt(2))
        ELSE Outcome(S1, Details(used, TRUE), first \o alt(1) \o alt(2))

(***************************************************************************)
(* The session of one YandexGPTHandler and the tool calls dispatched to    *)
(* it.  full_history and the fields of __init__ are the state; ndispatch,  *)
(* last and submitted are history variables: the number of dispatches, the *)
(* last dispatch with its result and the calls it made to the client, and  *)
(* whether a search_tours has obtained a request handle.                   *)
(***************************************************************************)
VARIABLES full_history, last_search_params, last_departure_city, last_requestid,
          search_awaiting_results, tourid_map, metrics, pending_tour_cards,
          user_stated_budget, ideal, ndispatch, last, submitted

\* chat(): _max_history_len, the position in the loop of chat() (pc), its
\* local counters, the value it returned (reply), and for the Yandex handler
\* what input_list holds and whether previous_response_id is set
VARIABLES max_history_len, pc, iteration, empty_retries, timeout_retries, geo_retries,
          reply, input_list, previous_response_id

\* OpenAIHandler._pinned_context: the tour index the pinned system message lists
VARIABLES pinned_context

\* history variable: the history as it was given to _trim_history
VARIABLES untrimmed

\* history variables of one chat(): the patterns that the failure of its
\* latest model call matched (model_error, <<>> after a call that succeeded)
\* and the cards that its latest get_search_results built (built, <<>> if none);
\* how many times it has appended the nudge that follows a promised search
VARIABLES model_error, built, promise_nudges

\* app.py, for one session id: the handler class of the configuration
\* (provider); the locals of the other request that is inside chat(), <<>> if
\* there is none (waiting); the cards of the response sent last, with the
\* cards its own chat() built (delivered); the number of message requests
\* answered (nrequests)
VARIABLES provider, waiting, delivered, nrequests

appVars == <<provider, waiting, delivered, nrequests>>

chatVars == <<max_history_len, pc, iteration, empty_retries, timeout_retries, geo_retries,
              reply, input_list, previous_response_id, pinned_context, untrimmed,
              model_error, built, promise_nudges, appVars>>

sessionVars == <<last_search_params, last_departure_city, last_requestid,
                 search_awaiting_results, tourid_map, metrics, pending_tour_cards,
                 user_stated_budget, ideal>>

dispatchVars == <<full_history, sessionVars, ndispatch, last, submitted>>

Session ==
    [lsp |-> last_search_params, city |-> last_departure_city, rid |-> last_requestid,
     awaiting |-> search_awaiting_results, tmap |-> tourid_map, metrics |-> metrics,
     cards |-> pending_tour_cards, budget |-> user_stated_budget, ideal |-> ideal]

\* __init__ (yandex_handler.py:1130-1207)
InitSession ==
    /\ last_search_params = EmptyArgs
    /\ last_departure_city = "Moskva"
    /\ last_requestid = <<>>
    /\ search_awaiting_results = FALSE
    /\ tourid_map = EmptyArgs
    /\ metrics = InitMetrics
    /\ pending_tour_cards = <<>>
    /\ user_stated_budget = 0
    /\ ideal = [datefrom |-> <<>>, nightsfrom |-> <<>>, nightsto |-> <<>>, has_budget |-> FALSE]
    /\ ndispatch = 0
    /\ last = [op |-> "none", args |-> EmptyArgs, result |-> [kind |-> "none"], calls |-> <<>>]
    /\ submitted = FALSE

\* the locals of chat() before any call of it
InitChat ==
    /\ pc = "idle"
    /\ iteration = 0
    /\ empty_retries = 0
    /\ timeout_retries = 0
    /\ geo_retries = 0
    /\ reply = "none"
    /\ input_list = "empty"
    /\ previous_response_id = FALSE
    /\ pinned_context = EmptyArgs
    /\ untrimmed = <<>>
    /\ model_error = <<>>
    /\ built = <<>>
    /\ promise_nudges = 0
    /\ waiting = <<>>
    /\ delivered = [cards |-> <<>>, built |-> <<>>]
    /\ nrequests = 0

\* the state after a dispatch with outcome out
Dispatched(op, args, out) ==
    /\ last_search_params' = out.S.lsp
    /\ last_departure_city' = out.S.city
    /\ last_requestid' = out.S.rid
    /\ search_awaiting_results' = out.S.awaiting
    /\ tourid_map' = out.S.tmap
    /\ metrics' = out.S.metrics
    /\ pending_tour_cards' = out.S.cards
    /\ user_stated_budget' = out.S.budget
    /\ ideal' = out.S.ideal
    /\ ndispatch' = ndispatch + 1
    /\ last' = [op |-> op, args |-> args, result |-> out.result, calls |-> out.calls]
    /\ submitted' = (submitted \/ (op = "search_tours" /\ out.result.kind = "requestid"))
    /\ UNCHANGED <<full_history, chatVars>>

(***************************************************************************)
(* Inputs: what the user and the assistant say, what the model passes to   *)
(* the tools, what the client answers                                      *)
(***************************************************************************)
UserUtterances ==
    { {},
      {"departure", "specific_date", "nights", "travelers"},
      {"departure", "specific_date", "nights", "travelers", "stars", "meal"},
      {"skip", "skip_qc"},
      {"resort_dahab"} }

AssistantUtterances == { {}, {"qc_question"} }

Date(d, m, y) == FullDate(d, m, y)

ArgsFull ==
    [k \in {"departure", "country", "datefrom", "nightsfrom", "nightsto", "adults", "stars", "meal"} |->
        CASE k = "departure" -> 1 [] k = "country" -> 4 [] k = "datefrom" -> Date(10, 12, 2026)
          [] k = "nightsfrom" -> 7 [] k = "nightsto" -> 7 [] k = "adults" -> 2
          [] k = "stars" -> 4 [] k = "meal" -> 3]

ArgsRange == Put(ArgsFull, "dateto", Date(17, 12, 2026))

\* 7 to 10 nights, flying between 10.12 and 23.12
ArgsNights == Put(Put(ArgsFull, "nightsto", 10), "dateto", Date(23, 12, 2026))

ArgsBare == [k \in {"country"} |-> 4]

ArgsArray == [k \in {"departure_array", "country"} |-> IF k = "country" THEN 4 ELSE 1]

ArgsShort ==
    [k \in {"departure", "country", "datefrom", "nightsfrom", "nightsto", "adults", "child", "priceto"} |->
        CASE k = "departure" -> 5 [] k = "country" -> 1
          [] k = "datefrom" -> [t |-> "dm", d |-> 5, m |-> 10, pad |-> TRUE]
          [] k = "nightsfrom" -> 2 [] k = "nightsto" -> 1 [] k = "adults" -> 2
          [] k = "child" -> 1 [] k = "priceto" -> 100]

SearchArgs == {ArgsFull, ArgsRange, ArgsBare, ArgsArray, ArgsShort}

\* the searches whose results are ranked: by relevance, and by price when a
\* budget is named
ArgsBudget == Put(ArgsFull, "priceto", 100)

RankedArgs == {ArgsFull, ArgsNights, ArgsBudget}

Handle(id) == [kind |-> "handle", id |-> id]

SearchResponses == {Handle(<<"4", "1">>), [kind |-> "none"], [kind |-> "raise"]}

RegionsResponses == {"found", "not_found", "raise"}

\* request handles as the model passes them: digits with a space, a placeholder
RequestIds == {<<"7", " ", "2">>, <<"i", "d">>}

RequestIdArgs == {[k \in {"requestid"} |-> r] : r \in RequestIds}

Searching(hotels, tours, progress) == Status("searching", hotels, tours, progress)

\* the search has finished with hotels, or with none
StatusFinished == Polls(<<>>, Status("finished", 12, 40, 100), 0)

StatusFinishedEmpty == Polls(<<>>, Status("finished", 0, 0, 100), 0)

\* the call of the client raises
StatusRaises == Polls(<<>>, Status("raise", 0, 0, 0), 0)

\* the search neither finishes nor finds a hotel
StatusNothingYet == Polls(<<>>, Searching(0, 0, 10), 1)

\* one hotel is found after the first poll, and no more
StatusOneHotel == Polls(<<Searching(0, 0, 10)>>, Searching(1, 5, 20), 0)

\* enough hotels for an early return are found after the first poll
StatusManyHotels == Polls(<<Searching(0, 0, 10)>>, Searching(5, 25, 60), 0)

\* the handle is not known to the API
StatusNotFound == Polls(<<>>, Status("no search results", 0, 0, 0), 0)

StatusResponses ==
    {StatusFinished, StatusFinishedEmpty, StatusRaises, StatusNothingYet, StatusOneHotel,
     StatusManyHotels, StatusNotFound}

Hotel(code, tours) == [hotelcode |-> code, tours |-> tours]

\* six hotels with tours of 5 to 12 nights that fly on the requested day or
\* up to 13 days after it
FiveHotels ==
    << Hotel(11, <<Tour(<<"8", "1">>, 10, Date(20, 12, 2026), 50)>>),
       Hotel(12, <<Tour(<<"8", "2">>, 9, Date(10, 12, 2026), 30)>>),
       Hotel(13, <<Tour(<<"9", "3">>, 12, Date(10, 12, 2026), 35),
                   Tour(<<"8", "3">>, 7, Date(23, 12, 2026), 40)>>),
       Hotel(14, <<Tour(<<"8", "4">>, 11, Date(10, 12, 2026), 20)>>),
       Hotel(15, <<Tour(<<"8", "5">>, 5, Date(10, 12, 2026), 60)>>),
       Hotel(16, <<Tour(<<"8", "6">>, 10, Date(10, 12, 2026), 70)>>) >>

\* a hotel without tours and a hotel with one
TwoHotels ==
    << Hotel(11, <<>>),
       Hotel(12, <<Tour(<<"8", "2">>, 7, Date(10, 12, 2026), 60)>>) >>

ResultsResponses ==
    {[kind |-> "hotels", hotels |-> h] : h \in {FiveHotels, TwoHotels}} \cup {[kind |-> "raise"]}

\* offer ids as the model passes them: numeric, "TRET", "3/5", "x"
TourIds == {<<"8", "3">>, <<"T", "R", "E", "T">>, <<"3", "/", "5">>, <<"x">>}

TourIdArgs == {[k \in {"tourid"} |-> t] : t \in TourIds}

DetailsResponses == {"ok", "iserror", "expired", "raise"}

ActualizeResponses == {"ok", "expired", "raise"}

AltResponses == {<<"iserror", "ok">>, <<"raise", "iserror">>}

(***************************************************************************)
(* Actions                                                                 *)
(***************************************************************************)
\* _append_history (yandex_handler.py:1247-1256)
append_history(hist, role, text) ==
    IF hist # <<>> /\ Last(hist).role = role
    THEN hist \o <<Msg(IF role = "user" THEN "assistant" ELSE "user", {}), Msg(role, text)>>
    ELSE Append(hist, Msg(role, text))

AppendHistory ==
    /\ Len(full_history) < MaxHistory
    /\ \E role \in {"user", "assistant"} :
         \E text \in (IF role = "user" THEN UserUtterances ELSE AssistantUtterances) :
            /\ Len(append_history(full_history, role, text)) <= MaxHistory
            /\ full_history' = append_history(full_history, role, text)
    /\ UNCHANGED <<sessionVars, ndispatch, last, submitted, chatVars>>

\* whether the dispatch of search_tours with these arguments, the client
\* answering as env, calls fn at the client
CallsFn(calls, fn) == \E i \in 1..Len(calls) : calls[i].fn = fn

Asks(fn, args, env) ==
    CallsFn(DispatchSearchTours(Session, args, full_history, env).calls, fn)

\* the answers of the client are drawn for the calls the dispatch makes
SearchTours ==
    /\ ndispatch < MaxDispatch
    /\ \E args \in SearchArgs :
         \E regions_resp \in (IF Asks("get_regions", args, [search_resp |-> [kind |-> "none"],
                                                             regions_resp |-> "not_found"])
                               THEN RegionsResponses ELSE {"not_found"}) :
            \E search_resp \in (IF Asks("search_tours", args, [search_resp |-> [kind |-> "none"],
                                                                regions_resp |-> regions_resp])
                                 THEN SearchResponses ELSE {[kind |-> "none"]}) :
               Dispatched("search_tours", args,
                          DispatchSearchTours(Session, args, full_history,
                                              [search_resp |-> search_resp,
                                               regions_resp |-> regions_resp]))

GetSearchStatus ==
    /\ ndispatch < MaxDispatch
    /\ \E args \in RequestIdArgs, status_resp \in StatusResponses :
         Dispatched("get_search_status", args, DispatchGetSearchStatus(Session, args, status_resp))

GetSearchResults ==
    /\ ndispatch < MaxDispatch
    /\ \E args \in RequestIdArgs, results_resp \in ResultsResponses :
         Dispatched("get_search_results", args, DispatchGetSearchResults(Session, args, results_resp))

\* a call of TourVisorClient.wait_for_search; it leaves the handler as it is
WaitForSearch ==
    /\ ndispatch < MaxDispatch
    /\ \E status_resp \in StatusResponses, results_resp \in {"ok", "raise"} :
         Dispatched("wait_for_search", [k \in {"requestid"} |-> <<"4", "1">>],
                    wait_for_search(Session, <<"4", "1">>, status_resp, results_resp))

ContinueSearch ==
    /\ ndispatch < MaxDispatch
    /\ \E args \in RequestIdArgs, continue_resp \in {"ok", "raise"} :
         Dispatched("continue_search", args, DispatchContinueSearch(Session, args, continue_resp))

ActualizeTour ==
    /\ ndispatch < MaxDispatch
    /\ \E args \in TourIdArgs, actualize_resp \in ActualizeResponses :
         Dispatched("actualize_tour", args, DispatchActualizeTour(Session, args, actualize_resp))

GetTourDetails ==
    /\ ndispatch < MaxDispatch
    /\ \E args \in TourIdArgs, details_resp \in DetailsResponses, alt_resps \in AltResponses :
         Dispatched("get_tour_details", args,
                    DispatchGetTourDetails(Session, args, details_resp, alt_resps))

\* _max_history_len (yandex_handler.py:1158)
MAX_HISTORY_LEN == 30

Init ==
    /\ full_history = <<>>
    /\ max_history_len = MAX_HISTORY_LEN
    /\ provider = "yandex"
    /\ InitSession
    /\ InitChat

(***************************************************************************)
(* Spec: the conversation and the search_tours / get_search_results calls  *)
(* of the model, in any order.                                             *)
(***************************************************************************)
Next ==
    \/ AppendHistory
    \/ SearchTours
    \/ GetSearchResults

vars == <<dispatchVars, chatVars>>

Spec == Init /\ [][Next]_vars

(***************************************************************************)
(* SpecIds: the calls that take a request handle or an offer id, in a      *)
(* session where the user states a complete request and the model submits  *)
(* the search for it.                                                      *)
(***************************************************************************)
UserStatesAll ==
    /\ Len(full_history) < MaxHistory
    /\ full_history' = append_history(full_history, "user",
                          {"departure", "specific_date", "nights", "travelers", "stars", "meal"})
    /\ Len(full_history') <= MaxHistory
    /\ UNCHANGED <<sessionVars, ndispatch, last, submitted, chatVars>>

SearchStated ==
    /\ ndispatch < MaxDispatch
    /\ \E search_resp \in SearchResponses :
         Dispatched("search_tours", ArgsFull,
                    DispatchSearchTours(Session, ArgsFull, full_history,
                                        [search_resp |-> search_resp, regions_resp |-> "not_found"]))

NextIds ==
    \/ UserStatesAll
    \/ SearchStated
    \/ GetSearchStatus
    \/ WaitForSearch
    \/ GetSearchResults
    \/ ContinueSearch
    \/ ActualizeTour
    \/ GetTourDetails

SpecIds == Init /\ [][NextIds]_vars

(***************************************************************************)
(* SpecRank: the searches of a complete request and the retrieval of their *)
(* results, which ranks the hotels and builds the cards.                   *)
(***************************************************************************)
SearchRanked ==
    /\ ndispatch < MaxDispatch
    /\ \E args \in RankedArgs, search_resp \in SearchResponses :
         Dispatched("search_tours", args,
                    DispatchSearchTours(Session, args, full_history,
                                        [search_resp |-> search_resp, regions_resp |-> "not_found"]))

NextRank ==
    \/ UserStatesAll
    \/ SearchRanked
    \/ GetSearchResults

SpecRank == Init /\ [][NextRank]_vars

(***************************************************************************)
(* SpecHot: the results of a search and the hot tours, which both build    *)
(* the cards shown to the user.                                            *)
(***************************************************************************)
HotTour(code, tourid, nights) == [hotelcode |-> code, tourid |-> tourid, nights |-> nights]

\* two hot tours, none, or the exception of the client
HotResponses ==
    { [kind |-> "tours", tours |-> <<HotTour(21, <<"7", "1">>, 6), HotTour(22, <<"7", "2">>, 8)>>],
      [kind |-> "tours", tours |-> <<>>],
      [kind |-> "raise"] }

HotArgs == { [k \in {"city"} |-> 1], [k \in {"city", "tourtype"} |-> IF k = "city" THEN 1 ELSE 3] }

UserAsksHot ==
    /\ Len(full_history) < MaxHistory
    /\ \E text \in { {"sea"}, {"departure", "sea"} } :
         full_history' = append_history(full_history, "user", text)
    /\ Len(full_history') <= MaxHistory
    /\ UNCHANGED <<sessionVars, ndispatch, last, submitted, chatVars>>

GetHotTours ==
    /\ ndispatch < MaxDispatch
    /\ \E args \in HotArgs, hot_resp \in HotResponses :
         Dispatched("get_hot_tours", args, DispatchGetHotTours(Session, args, full_history, hot_resp))

NextHot ==
    \/ UserStatesAll
    \/ UserAsksHot
    \/ SearchStated
    \/ GetSearchResults
    \/ GetHotTours

SpecHot == Init /\ [][NextHot]_vars

(***************************************************************************)
(* SpecStart: the searches of a complete request with any of the dates of  *)
(* DatedArgs, after the user named the dates or a part of the month.       *)
(***************************************************************************)
\* start dates: before today, later this month, next month
StartDates == { Date(1, 11, 2026), Date(10, 11, 2026), Date(10, 12, 2026) }

\* end dates: none, two days after 10.11, before 10.12, a day the month does
\* not have, a week after 10.12
EndDates == { Date(12, 11, 2026), Date(5, 12, 2026), Date(31, 11, 2026), Date(17, 12, 2026) }

DatedArgs ==
    LET from == {Put(ArgsFull, "datefrom", d) : d \in StartDates}
    IN  from \cup {Put(a, "dateto", d) : a \in from, d \in EndDates}

UserStatesMonthPart ==
    /\ Len(full_history) < MaxHistory
    /\ full_history' = append_history(full_history, "user",
                          {"departure", "specific_date", "nights", "travelers", "stars", "meal",
                           "begin_of_november"})
    /\ Len(full_history') <= MaxHistory
    /\ UNCHANGED <<sessionVars, ndispatch, last, submitted, chatVars>>

SearchDated ==
    /\ ndispatch < MaxDispatch
    /\ \E args \in DatedArgs, search_resp \in SearchResponses :
         Dispatched("search_tours", args,
                    DispatchSearchTours(Session, args, full_history,
                                        [search_resp |-> search_resp, regions_resp |-> "not_found"]))

NextStart ==
    \/ UserStatesAll
    \/ UserStatesMonthPart
    \/ SearchDated

SpecStart == Init /\ [][NextStart]_vars

(***************************************************************************)
(* SpecNights: the searches of a complete request with any bounds of the   *)
(* duration between 0 and MaxNights.                                       *)
(***************************************************************************)
MaxNights == 8

NightsArgs ==
    { Put(Put(ArgsFull, "nightsfrom", nf), "nightsto", nt) : nf \in 0..MaxNights, nt \in 0..MaxNights }

SearchNights ==
    /\ ndispatch < MaxDispatch
    /\ \E args \in NightsArgs, search_resp \in SearchResponses :
         Dispatched("search_tours", args,
                    DispatchSearchTours(Session, args, full_history,
                                        [search_resp |-> search_resp, regions_resp |-> "not_found"]))

NextNights ==
    \/ UserStatesAll
    \/ SearchNights

SpecNights == Init /\ [][NextNights]_vars

(***************************************************************************)
(* SpecQuality: the searches of a user who states a complete request, or   *)
(* a request with any hotel, the model passing any of the quality filters. *)
(***************************************************************************)
QUALITY_FILTERS == {"stars", "starsbetter", "meal", "mealbetter"}

QualityArgs ==
    { [k \in (DOMAIN ArgsFull \ QUALITY_FILTERS) \cup filters |->
          IF k \in {"starsbetter", "mealbetter"} THEN 1 ELSE ArgsFull[k]] :
      filters \in SUBSET QUALITY_FILTERS }

UserStatesIndifferent ==
    /\ Len(full_history) < MaxHistory
    /\ full_history' = append_history(full_history, "user",
                          {"departure", "specific_date", "nights", "travelers", "skip", "skip_qc"})
    /\ Len(full_history') <= MaxHistory
    /\ UNCHANGED <<sessionVars, ndispatch, last, submitted, chatVars>>

SearchQuality ==
    /\ ndispatch < MaxDispatch
    /\ \E args \in QualityArgs, search_resp \in SearchResponses :
         Dispatched("search_tours", args,
                    DispatchSearchTours(Session, args, full_history,
                                        [search_resp |-> search_resp, regions_resp |-> "not_found"]))

NextQuality ==
    \/ UserStatesAll
    \/ UserStatesIndifferent
    \/ SearchQuality

SpecQuality == Init /\ [][NextQuality]_vars

(***************************************************************************)
(* OpenAIHandler: the history as blocks (openai_handler.py:292-332,        *)
(* 792-831).  A turn is [role, text, tool_calls, tool_call_id]; tool_calls *)
(* is the sequence of the invocation ids of an assistant turn.             *)
(***************************************************************************)
ToolCallMsg(ids) == [role |-> "assistant", text |-> {}, tool_calls |-> ids, tool_call_id |-> ""]

ToolMsg(id, text) == [role |-> "tool", text |-> text, tool_calls |-> <<>>, tool_call_id |-> id]

IsToolCall(m) == m.role = "assistant" /\ m.tool_calls # <<>>

\* number of tool turns at the head of s
RECURSIVE ToolRun(_)
ToolRun(s) ==
    IF s = <<>> \/ Head(s).role # "tool" THEN 0 ELSE 1 + ToolRun(Tail(s))

RECURSIVE Flatten(_)
Flatten(blocks) == IF blocks = <<>> THEN <<>> ELSE Head(blocks) \o Flatten(Tail(blocks))

RECURSIVE TotalLen(_)
TotalLen(blocks) == IF blocks = <<>> THEN 0 ELSE Len(Head(blocks)) + TotalLen(Tail(blocks))

RECURSIVE group_into_blocks(_)
group_into_blocks(messages) ==
    IF messages = <<>> THEN <<>>
    ELSE IF IsToolCall(Head(messages))
    THEN LET n == 1 + ToolRun(Tail(messages))
         IN  <<SubSeq(messages, 1, n)>> \o group_into_blocks(SubSeq(messages, n + 1, Len(messages)))
    ELSE <<<<Head(messages)>>>> \o group_into_blocks(Tail(messages))

RECURSIVE drop_oldest_down_to_two(_, _)
drop_oldest_down_to_two(blocks, limit) ==
    IF TotalLen(blocks) > limit /\ Len(blocks) > 2
    THEN drop_oldest_down_to_two(<<blocks[1]>> \o SubSeq(blocks, 3, Len(blocks)), limit)
    ELSE blocks

\* the loop of _trim_history: the second block goes while the total is over the limit
RECURSIVE DropOldest(_, _)
DropOldest(blocks, limit) ==
    IF TotalLen(blocks) > limit /\ Len(blocks) > 3
    THEN DropOldest(<<blocks[1]>> \o SubSeq(blocks, 3, Len(blocks)), limit)
    ELSE blocks

\* YandexGPTHandler._trim_history (yandex_handler.py:1258-1269): the first two
\* turns and the last limit - 2
yandex_trim_history(hist, limit) ==
    IF Len(hist) > limit
    THEN SubSeq(hist, 1, 2) \o SubSeq(hist, Len(hist) - (limit - 2) + 1, Len(hist))
    ELSE hist

trim_history_by_turns(hist, limit) ==
    IF Len(hist) <= limit THEN hist
    ELSE <<hist[1]>> \o SubSeq(hist, Len(hist) - limit + 2, Len(hist))

\* OpenAIHandler._trim_history
trim_history(hist, limit) ==
    IF Len(hist) <= limit THEN hist
    ELSE Flatten(DropOldest(group_into_blocks(hist), limit))

shrink_history_whatever_its_length(hist) ==
    LET blocks == group_into_blocks(hist)
        tail_blocks == IF Len(blocks) > 3 THEN SubSeq(blocks, Len(blocks) - 2, Len(blocks))
                       ELSE Tail(blocks)
    IN  IF blocks = <<>> THEN hist ELSE Flatten(<<blocks[1]>> \o tail_blocks)

\* the shrink after a context-length error (openai_handler.py:450-456)
shrink_history(hist) ==
    IF Len(hist) > 8
    THEN LET blocks == group_into_blocks(hist)
             tail_blocks == IF Len(blocks) > 3 THEN SubSeq(blocks, Len(blocks) - 2, Len(blocks))
                            ELSE Tail(blocks)
         IN  Flatten(<<blocks[1]>> \o tail_blocks)
    ELSE hist

BlockIsClean(block) ==
    /\ block[1].role # "tool"
    /\ IsToolCall(block[1]) =>
          {block[1].tool_calls[i] : i \in 1..Len(block[1].tool_calls)}
             = {block[j].tool_call_id : j \in 2..Len(block)}

cleanup_history_keeping_orphans(hist) ==
    Flatten(SelectSeq(group_into_blocks(hist),
                      LAMBDA block : block[1].role = "tool" \/ BlockIsClean(block)))

\* OpenAIHandler._cleanup_history (openai_handler.py:794-831)
cleanup_history(hist) == Flatten(SelectSeq(group_into_blocks(hist), BlockIsClean))

\* every assistant turn with invocations is followed at once by exactly one
\* tool turn per invocation id, and every tool turn belongs to such a group
WellFormed(hist) ==
    /\ \A i \in 1..Len(hist) :
          IsToolCall(hist[i]) =>
             LET ids == hist[i].tool_calls
                 n == Len(ids)
             IN  /\ i + n <= Len(hist)
                 /\ \A j \in (i + 1)..(i + n) : hist[j].role = "tool"
                 /\ (i + n + 1 <= Len(hist)) => hist[i + n + 1].role # "tool"
                 /\ \A k \in 1..n :
                       Cardinality({j \in (i + 1)..(i + n) : hist[j].tool_call_id = ids[k]}) = 1
    /\ \A j \in 1..Len(hist) :
          hist[j].role = "tool" =>
             \E i \in 1..(j - 1) :
                /\ IsToolCall(hist[i])
                /\ \A k \in (i + 1)..j : hist[k].role = "tool"

(***************************************************************************)
(* SpecTrim: _trim_history applied to a history made of whole blocks, for  *)
(* every limit up to MaxLimit.                                             *)
(***************************************************************************)
MaxBlocks == 5       \* blocks of the history given to _trim_history

MaxLimit == 6        \* largest _max_history_len given to _trim_history

\* the blocks chat() appends: a user turn, an assistant text, an assistant turn
\* with one invocation and its result, one with two invocations and their results
HistoryBlocks ==
    { <<Msg("user", {})>>,
      <<Msg("assistant", {})>>,
      <<ToolCallMsg(<<"a">>), ToolMsg("a", {})>>,
      <<ToolCallMsg(<<"a", "b">>), ToolMsg("a", {}), ToolMsg("b", {})>> }

RECURSIVE BlockSeqs(_)
BlockSeqs(n) ==
    IF n = 0 THEN {<<>>}
    ELSE BlockSeqs(n - 1) \cup {Append(s, b) : s \in {t \in BlockSeqs(n - 1) : Len(t) = n - 1},
                                               b \in HistoryBlocks}

InitTrim ==
    /\ full_history \in {Flatten(bs) : bs \in BlockSeqs(MaxBlocks)}
    /\ max_history_len \in 1..MaxLimit
    /\ provider = "yandex"
    /\ InitSession
    /\ InitChat

TrimHistory ==
    /\ pc = "idle"
    /\ full_history' = trim_history(full_history, max_history_len)
    /\ untrimmed' = full_history
    /\ pc' = "trimmed"
    /\ UNCHANGED <<sessionVars, ndispatch, last, submitted, max_history_len, appVars, iteration,
                   empty_retries, timeout_retries, geo_retries, reply, input_list,
                   previous_response_id, pinned_context, model_error, built,
                   promise_nudges>>

NextTrim == TrimHistory

SpecTrim == InitTrim /\ [][NextTrim]_vars

DefaultEnv ==
    [search_resp |-> Handle(<<"4", "1">>), regions_resp |-> "not_found",
     status_resp |-> StatusFinished, results_resp |-> [kind |-> "hotels", hotels |-> TwoHotels],
     continue_resp |-> "ok", actualize_resp |-> "ok", details_resp |-> "ok",
     alt_resps |-> <<"iserror", "ok">>]

dispatch_function(S, name, args, hist, env) ==
    CASE name = "get_current_date" -> Outcome(S, [kind |-> "date"], <<>>)
      [] name = "search_tours" -> DispatchSearchTours(S, args, hist, env)
      [] name = "get_search_status" -> DispatchGetSearchStatus(S, args, env.status_resp)
      [] name = "get_search_results" -> DispatchGetSearchResults(S, args, env.results_resp)
      [] name = "continue_search" -> DispatchContinueSearch(S, args, env.continue_resp)
      [] name = "actualize_tour" -> DispatchActualizeTour(S, args, env.actualize_resp)
      [] name = "get_tour_details" ->
            DispatchGetTourDetails(S, args, env.details_resp, env.alt_resps)
      [] OTHER -> Outcome(S, [kind |-> "error_unknown_function"], <<>>)

\* the output of a call: "result" for what the dispatcher returned (its own
\* error answers included), "business_error", "unexpected_error", "invalid_json"
ExecOutput(out) ==
    [S |-> out.S,
     output |-> IF out.result.kind \in {"no_results_error", "expired_error"} THEN "business_error"
                ELSE IF out.result.kind = "exception" THEN "unexpected_error"
                ELSE "result",
     result |-> out.result,
     calls |-> out.calls]

execute_function_dispatching_any(S, call, hist) ==
    ExecOutput(dispatch_function(S, call.name, call.args, hist, call.env))

execute_function(S, call, hist) ==
    IF call.malformed
    THEN [S |-> S, output |-> "invalid_json", result |-> [kind |-> "invalid_json"], calls |-> <<>>]
    ELSE ExecOutput(dispatch_function(S, call.name, call.args, hist, call.env))

\* the calls of one turn run one after another in the given order; out maps
\* the index of each call to its output, done lists the indices of the calls
\* in the order they completed, ran is the last execution, built the cards
\* of the last get_search_results that built cards
RECURSIVE RunCalls(_, _, _, _)

\* the run whose first call, calls[i], executed as e and whose other calls ran as rest
RunOf(calls, i, e, rest) ==
    [S |-> rest.S,
     out |-> Put(rest.out, i, e.output),
     done |-> <<i>> \o rest.done,
     ran |-> IF rest.ran # <<>> THEN rest.ran
             ELSE <<[op |-> calls[i].name, args |-> calls[i].args,
                     result |-> e.result, calls |-> e.calls]>>,
     got_handle |-> rest.got_handle
                    \/ (calls[i].name = "search_tours" /\ e.result.kind = "requestid"),
     built |-> IF rest.built # <<>> THEN rest.built
               ELSE IF calls[i].name = "get_search_results" /\ e.result.kind = "hotels"
               THEN <<e.S.cards>>
               ELSE <<>>]

RunAfter(calls, order, hist, e) ==
    RunOf(calls, Head(order), e, RunCalls(e.S, calls, Tail(order), hist))

RunCalls(S, calls, order, hist) ==
    IF order = <<>>
    THEN [S |-> S, out |-> <<>>, done |-> <<>>, ran |-> <<>>, got_handle |-> FALSE,
          built |-> <<>>]
    ELSE RunAfter(calls, order, hist, execute_function(S, calls[Head(order)], hist))

\* the orders in which the calls of a turn can complete
Orders(n) == IF n = 1 THEN {<<1>>} ELSE {<<1, 2>>, <<2, 1>>}

(***************************************************************************)
(* asyncio.gather over the calls of one turn (openai_handler.py:573-595):  *)
(* the coroutines start in the order of the calls and each runs up to its  *)
(* request to the client, where it waits; they go on, one at a time, in    *)
(* the order in which the answers of the client arrive.  A call that makes *)
(* no request to the client runs to its end when it starts.                *)
(***************************************************************************)
\* the call after the part before its request: search_tours has set the
\* departure city and the counters (yandex_handler.py:1382-2053),
\* get_search_results has cleared the flag and replaced a placeholder handle
\* by the handle cached at that time (2260-2271); the other functions write
\* nothing after their requests
Started(S, call, e) ==
    IF e.calls = <<>> THEN [S |-> e.S, e |-> e, waits |-> FALSE, rid |-> S.rid]
    ELSE IF call.name = "search_tours" /\ e.result.kind = "requestid"
    THEN [S |-> [S EXCEPT !.city = e.S.city, !.metrics = e.S.metrics],
          e |-> e, waits |-> TRUE, rid |-> S.rid]
    ELSE IF call.name = "get_search_results"
    THEN [S |-> [S EXCEPT !.awaiting = FALSE, !.metrics = e.S.metrics],
          e |-> e, waits |-> TRUE, rid |-> S.rid]
    ELSE [S |-> e.S, e |-> e, waits |-> TRUE, rid |-> S.rid]

StartCall(S, call, hist) == Started(S, call, execute_function(S, call, hist))

\* the execution of a call as it ended, leaving the session as S
EndedAs(S, e) == [S |-> S, e |-> [e EXCEPT !.S = S]]

\* get_search_results after the answer of the client: the hotels are ranked
\* with the ideal parameters of that time, the cards and the tour index are
\* replaced (yandex_handler.py:2284-2427)
ResultsArrived(Snow, e2) == EndedAs([Snow EXCEPT !.cards = e2.S.cards, !.tmap = e2.S.tmap], e2)

\* the call after the answer of the client: search_tours caches the handle,
\* empties the tour index, caches the parameters and sets the flag
\* (yandex_handler.py:2092-2124)
FinishCall(Snow, call, st, hist) ==
    IF ~st.waits THEN EndedAs(Snow, st.e)
    ELSE IF call.name = "search_tours" /\ st.e.result.kind = "requestid"
    THEN EndedAs([Snow EXCEPT !.rid = st.e.S.rid, !.tmap = st.e.S.tmap,
                              !.budget = st.e.S.budget, !.lsp = st.e.S.lsp,
                              !.ideal = st.e.S.ideal, !.awaiting = st.e.S.awaiting], st.e)
    ELSE IF call.name = "get_search_results"
    THEN ResultsArrived(Snow, execute_function([Snow EXCEPT !.rid = st.rid], call, hist))
    ELSE EndedAs(Snow, st.e)

NoRun(S) ==
    [S |-> S, out |-> <<>>, done |-> <<>>, ran |-> <<>>, got_handle |-> FALSE, built |-> <<>>]

\* the order in which the two calls end, the answers arriving in order
CompletionOrder(s1, s2, order) ==
    IF ~s1.waits THEN <<1, 2>> ELSE IF ~s2.waits THEN <<2, 1>> ELSE order

GatheredLast(calls, order, f1, f2) ==
    RunOf(calls, order[1], f1.e, RunOf(calls, order[2], f2.e, NoRun(f2.S)))

GatheredFirst(calls, order, hist, st, f1) ==
    GatheredLast(calls, order, f1, FinishCall(f1.S, calls[order[2]], st[order[2]], hist))

GatheredIn(calls, order, hist, st) ==
    GatheredFirst(calls, order, hist, st, FinishCall(st[2].S, calls[order[1]], st[order[1]], hist))

GatheredFrom(calls, order, hist, s1, s2) ==
    GatheredIn(calls, CompletionOrder(s1, s2, order), hist, <<s1, s2>>)

GatheredAfter(calls, order, hist, s1) ==
    GatheredFrom(calls, order, hist, s1, StartCall(s1.S, calls[2], hist))

GatherCalls(S, calls, order, hist) ==
    IF Len(calls) = 1 THEN RunCalls(S, calls, <<1>>, hist)
    ELSE GatheredAfter(calls, order, hist, StartCall(S, calls[1], hist))

SetSession(S) ==
    /\ last_search_params' = S.lsp
    /\ last_departure_city' = S.city
    /\ last_requestid' = S.rid
    /\ search_awaiting_results' = S.awaiting
    /\ tourid_map' = S.tmap
    /\ metrics' = S.metrics
    /\ pending_tour_cards' = S.cards
    /\ user_stated_budget' = S.budget
    /\ ideal' = S.ideal

\* the state after the calls of a turn have run
Executed(run, n) ==
    /\ SetSession(run.S)
    /\ ndispatch' = ndispatch + n
    /\ last' = run.ran[1]
    /\ submitted' = (submitted \/ run.got_handle)
    /\ built' = IF run.built # <<>> THEN run.built ELSE built
    /\ UNCHANGED promise_nudges

(***************************************************************************)
(* What the model answers in a chat: tool calls                            *)
(***************************************************************************)
ToolCall(id, name, args, env) ==
    [id |-> id, name |-> name, malformed |-> FALSE, args |-> args, env |-> env]

CallDate(id) == ToolCall(id, "get_current_date", EmptyArgs, DefaultEnv)

CallSearch(id, search_resp) ==
    ToolCall(id, "search_tours", ArgsFull, [DefaultEnv EXCEPT !.search_resp = search_resp])

CallStatus(id, status_resp) ==
    ToolCall(id, "get_search_status", [k \in {"requestid"} |-> <<"i", "d">>],
             [DefaultEnv EXCEPT !.status_resp = status_resp])

CallResults(id) ==
    ToolCall(id, "get_search_results", [k \in {"requestid"} |-> <<"i", "d">>], DefaultEnv)

CallMalformed(id) == [CallSearch(id, Handle(<<"4", "1">>)) EXCEPT !.malformed = TRUE]

CallUnknown(id) == ToolCall(id, "web_search", EmptyArgs, DefaultEnv)

\* the turns of the first answers of the model
RichTurns ==
    { <<CallDate("a")>>, <<CallSearch("a", Handle(<<"4", "1">>))>>, <<CallSearch("a", [kind |-> "raise"])>>,
      <<CallStatus("a", StatusFinishedEmpty)>>, <<CallResults("a")>>, <<CallMalformed("a")>>,
      <<CallUnknown("a")>>,
      <<CallSearch("a", Handle(<<"4", "1">>)), CallResults("b")>>,
      <<CallMalformed("a"), CallStatus("b", StatusRaises)>> }

\* the turn of its later answers
PlainTurns == { <<CallDate("a")>> }

CallIds(turn) == [i \in 1..Len(turn) |-> turn[i].id]

(***************************************************************************)
(* OpenAIHandler.chat (openai_handler.py:352-788).  pc is "idle" before    *)
(* the call, "loop" at the head of the while loop, "done" after the        *)
(* return; reply names the sentence returned, "model_text" being the text  *)
(* of the model after the sanitizers.                                      *)
(***************************************************************************)
\* max_iterations (openai_handler.py:383)
OA_MAX_ITERATIONS == 20

MaxRich == 2         \* answers of the model drawn from all its kinds; later ones are plain

\* the tool turns that follow the assistant turn of the calls, in the order
\* of the calls (openai_handler.py:560-595)
tool_turns_without_errors(turn, out) ==
    LET ok == SelectSeq([i \in 1..Len(turn) |-> i], LAMBDA i : out[i] = "result")
    IN  [k \in 1..Len(ok) |-> ToolMsg(turn[ok[k]].id, {out[ok[k]]})]

tool_turns(turn, out) == [i \in 1..Len(turn) |-> ToolMsg(turn[i].id, {out[i]})]

\* the except branch of the model call (openai_handler.py:426-521); err is
\* the set of the patterns the text of the exception matches
Continue(hist, er, tr, gr) ==
    [hist |-> hist, er |-> er, tr |-> tr, gr |-> gr, cont |-> TRUE, reply |-> "none"]

Return(hist, er, tr, gr, text) ==
    [hist |-> hist, er |-> er, tr |-> tr, gr |-> gr, cont |-> FALSE, reply |-> text]

on_api_error_retrying_each_kind(hist, err, er, tr, gr) ==
    IF "timeout" \in err
    THEN IF tr + 1 < 2 THEN Continue(hist, er, tr + 1, gr)
         ELSE Return(hist, er, tr + 1, gr, "temporary_error")
    ELSE IF "403" \in err
    THEN IF gr + 1 < 2 THEN Continue(hist, er, tr, gr + 1)
         ELSE Return(hist, er, tr, gr + 1, "temporary_error")
    ELSE IF "connection_reset" \in err
    THEN IF tr + 1 < 3 THEN Continue(hist, er, tr + 1, gr)
         ELSE Return(hist, er, tr + 1, gr, "temporary_error")
    ELSE Return(hist, er, tr, gr, "temporary_error")

on_api_error_retrying_rate_limit(hist, err, er, tr, gr) ==
    IF "429" \in err
    THEN IF tr + 1 < 2 THEN Continue(hist, er, tr + 1, gr)
         ELSE Return(hist, er, tr + 1, gr, "overloaded")
    ELSE Return(hist, er, tr, gr, "temporary_error")

on_api_error(hist, err, er, tr, gr) ==
    IF "429" \in err THEN Return(hist, er, tr, gr, "overloaded")
    ELSE IF "context_length" \in err
    THEN IF er + 1 < 3 THEN Continue(shrink_history(hist), er + 1, tr, gr)
         ELSE Return(shrink_history(hist), er + 1, tr, gr, "dialog_too_long")
    ELSE LET h1 == IF "400" \in err THEN cleanup_history(hist) ELSE hist
             er1 == IF "400" \in err THEN er + 1 ELSE er
             tr1 == IF "timeout" \in err THEN tr + 1 ELSE tr
             gr1 == IF "403" \in err THEN gr + 1 ELSE gr
             tr2 == IF "connection_reset" \in err THEN tr1 + 1 ELSE tr1
         IN  IF "400" \in err /\ er1 < 3 THEN Continue(h1, er1, tr, gr)
             ELSE IF "timeout" \in err /\ tr1 < 2 THEN Continue(h1, er1, tr1, gr)
             ELSE IF "403" \in err /\ gr1 < 2 THEN Continue(h1, er1, tr1, gr1)
             ELSE IF "connection_reset" \in err /\ tr2 < 2 THEN Continue(h1, er1, tr2, gr1)
             ELSE Return(h1, er1, tr2, gr1, "temporary_error")

ProviderErrors ==
    { {"429"}, {"context_length"}, {"400"}, {"timeout"}, {"403"}, {"connection_reset"}, {},
      {"400", "timeout"}, {"429", "timeout"} }

\* the text branch (openai_handler.py:615-782); text is "empty", "promised",
\* "leak" or "plain"
TextContinue(hist, er, m, awaiting) ==
    [hist |-> hist, er |-> er, metrics |-> m, awaiting |-> awaiting, cont |-> TRUE, reply |-> "none"]

TextReturn(hist, er, m, awaiting, text) ==
    [hist |-> hist, er |-> er, metrics |-> m, awaiting |-> awaiting, cont |-> FALSE, reply |-> text]

on_text(hist, S, er, finish_reason, text) ==
    IF finish_reason = "content_filter"
    THEN IF er + 1 >= 3 THEN TextReturn(hist, er + 1, S.metrics, S.awaiting, "rephrase_error")
         ELSE TextContinue(Append(hist, Msg("user", {})), er + 1, S.metrics, S.awaiting)
    ELSE IF text = "empty"
    THEN IF er + 1 >= 3
         THEN TextReturn(hist, er + 1, S.metrics, S.awaiting,
                         IF S.cards # <<>> THEN "found_options" ELSE "could_not_process")
         ELSE TextContinue(Append(hist, Msg("user", {})), er + 1, S.metrics, S.awaiting)
    ELSE LET promised == text = "promised"
             leak == text = "leak"
             said == IF leak THEN {"results_prefix"} ELSE {}
             er1 == IF promised THEN er + 1 ELSE er
             m1 == IF promised THEN Inc(S.metrics, "promised_search_detections") ELSE S.metrics
             er2 == IF S.awaiting THEN er1 + 1 ELSE er1
             m2 == IF leak THEN Inc(m1, "result_leak_filtered") ELSE m1
             er3 == IF leak /\ S.cards = <<>> THEN er2 + 1 ELSE er2
             nudged(prefix) == hist \o <<Msg("assistant", said), Msg("user", prefix)>>
         IN  IF promised /\ er1 < 2
             THEN TextContinue(nudged({"system_prefix"}), er1, m1, S.awaiting)
             ELSE IF S.awaiting /\ er2 < 3
             THEN TextContinue(nudged({"system_prefix"}), er2, m1, S.awaiting)
             ELSE IF leak /\ S.cards = <<>> /\ er3 < 3
             THEN TextContinue(nudged({}), er3, m2, FALSE)
             ELSE TextReturn(Append(hist, Msg("assistant", {})), er3, m2, FALSE,
                             IF ~leak THEN "model_text"
                             ELSE IF S.cards # <<>> THEN "found_options" ELSE "processed")

\* the branch that appends the nudge after a promised search
\* (openai_handler.py:677-701)
promise_nudged(er, finish_reason, text) ==
    finish_reason # "content_filter" /\ text = "promised" /\ er + 1 < 2

TextAnswers ==
    { [finish_reason |-> f, text |-> t] :
         f \in {"stop", "length", "content_filter"}, t \in {"empty", "promised", "leak", "plain"} }

ChatUtterances == { {}, {"departure", "specific_date", "nights", "travelers", "stars", "meal"} }

OaChatEnterOf(texts) ==
    /\ pc = "idle"
    /\ \E text \in texts :
         /\ untrimmed' = Append(full_history, Msg("user", text))
         /\ full_history' = trim_history(untrimmed', max_history_len)
    /\ SetSession([Session EXCEPT !.cards = <<>>, !.metrics = Inc(@, "total_messages")])
    /\ iteration' = 0
    /\ empty_retries' = 0
    /\ timeout_retries' = 0
    /\ geo_retries' = 0
    /\ pc' = "loop"
    /\ model_error' = <<>>
    /\ built' = <<>>
    /\ promise_nudges' = 0
    /\ UNCHANGED <<ndispatch, last, submitted, max_history_len, appVars, reply, input_list,
                   previous_response_id, pinned_context>>

OaChatEnter == OaChatEnterOf(ChatUtterances)

OaApiErrorOf(errs) ==
    /\ pc = "loop" /\ iteration < OA_MAX_ITERATIONS
    /\ \E err \in errs :
         LET r == on_api_error(full_history, err, empty_retries, timeout_retries, geo_retries)
         IN  /\ full_history' = r.hist
             /\ empty_retries' = r.er
             /\ timeout_retries' = r.tr
             /\ geo_retries' = r.gr
             /\ pc' = IF r.cont THEN "loop" ELSE "done"
             /\ reply' = r.reply
             /\ model_error' = <<err>>
    /\ iteration' = iteration + 1
    /\ UNCHANGED <<sessionVars, ndispatch, last, submitted, max_history_len, appVars, input_list,
                   previous_response_id, pinned_context, untrimmed, built, promise_nudges>>

OaApiError == iteration < MaxRich /\ OaApiErrorOf(ProviderErrors)

ToolCallsDoneAsCompleted(turn, called, run) ==
    /\ full_history' = called \o [k \in 1..Len(run.done) |->
                                     ToolMsg(turn[run.done[k]].id, {run.out[run.done[k]]})]
    /\ Executed(run, Len(turn))
    /\ pinned_context' = IF run.S.tmap # EmptyArgs THEN run.S.tmap ELSE pinned_context

\* the state after the turn has been recorded with the outputs of its calls,
\* which asyncio.gather gives in the order of the calls
ToolCallsDone(turn, called, run) ==
    /\ full_history' = called \o tool_turns(turn, run.out)
    /\ Executed(run, Len(turn))
    /\ pinned_context' = IF run.S.tmap # EmptyArgs THEN run.S.tmap ELSE pinned_context

ToolCallsRun(turn, order, called) ==
    ToolCallsDone(turn, called, GatherCalls(Session, turn, order, called))

OaToolCallsOf(turns) ==
    /\ pc = "loop" /\ iteration < OA_MAX_ITERATIONS
    /\ \E turn \in turns :
         \E order \in Orders(Len(turn)) :
            ToolCallsRun(turn, order, Append(full_history, ToolCallMsg(CallIds(turn))))
    /\ iteration' = iteration + 1
    /\ model_error' = <<>>
    /\ UNCHANGED <<max_history_len, appVars, pc, empty_retries, timeout_retries, geo_retries, reply,
                   input_list, previous_response_id, untrimmed>>

OaToolCalls == OaToolCallsOf(IF iteration < MaxRich THEN RichTurns ELSE PlainTurns)

OaTextResponseOf(answers) ==
    /\ pc = "loop" /\ iteration < OA_MAX_ITERATIONS
    /\ \E answer \in answers :
         LET r == on_text(full_history, Session, empty_retries, answer.finish_reason, answer.text)
         IN  /\ full_history' = r.hist
             /\ empty_retries' = r.er
             /\ SetSession([Session EXCEPT !.metrics = r.metrics, !.awaiting = r.awaiting])
             /\ pc' = IF r.cont THEN "loop" ELSE "done"
             /\ reply' = r.reply
             /\ promise_nudges' = IF promise_nudged(empty_retries, answer.finish_reason, answer.text)
                                  THEN promise_nudges + 1 ELSE promise_nudges
    /\ iteration' = iteration + 1
    /\ model_error' = <<>>
    /\ UNCHANGED <<ndispatch, last, submitted, max_history_len, appVars, timeout_retries, geo_retries,
                   input_list, previous_response_id, pinned_context, untrimmed, built>>

OaTextResponse == iteration < MaxRich /\ OaTextResponseOf(TextAnswers)

OaCeiling ==
    /\ pc = "loop" /\ iteration >= OA_MAX_ITERATIONS
    /\ reply' = "too_complex"
    /\ pc' = "done"
    /\ UNCHANGED <<dispatchVars, max_history_len, appVars, iteration, empty_retries, timeout_retries,
                   geo_retries, input_list, previous_response_id, pinned_context, untrimmed, model_error, built,
                   promise_nudges>>

\* a conversation of whole blocks longer than _max_history_len
LongHistory ==
    <<Msg("user", {"departure", "specific_date", "nights", "travelers", "stars", "meal"})>>
       \o Flatten([i \in 1..10 |->
                     <<ToolCallMsg(<<"a", "b">>), ToolMsg("a", {"result"}), ToolMsg("b", {"result"})>>])

InitOpenAI ==
    /\ full_history \in {<<>>, LongHistory}
    /\ max_history_len = MAX_HISTORY_LEN
    /\ provider = "openai"
    /\ InitSession
    /\ InitChat

NextOpenAI ==
    \/ OaChatEnter
    \/ OaApiError
    \/ OaToolCalls
    \/ OaTextResponse
    \/ OaCeiling

SpecOpenAI == InitOpenAI /\ [][NextOpenAI]_vars

(***************************************************************************)
(* SpecExec: a chat() of the OpenAI handler in which every answer of the   *)
(* model holds one tool call, of every kind of outcome that                *)
(* _execute_function has.                                                  *)
(***************************************************************************)
MaxExec == 2         \* answers with a tool call in the chat()

CallActualize(id, actualize_resp) ==
    ToolCall(id, "actualize_tour", [k \in {"tourid"} |-> <<"8", "3">>],
             [DefaultEnv EXCEPT !.actualize_resp = actualize_resp])

ExecCalls ==
    { CallDate("a"), CallSearch("a", Handle(<<"4", "1">>)), CallSearch("a", [kind |-> "raise"]),
      CallStatus("a", StatusFinished), CallStatus("a", StatusFinishedEmpty),
      CallStatus("a", StatusRaises), CallResults("a"), CallMalformed("a"), CallUnknown("a"),
      CallActualize("a", "ok"), CallActualize("a", "expired"), CallActualize("a", "raise") }

ExecUtterances == { {"departure", "specific_date", "nights", "travelers", "stars", "meal"} }

ExecAnswers == { [finish_reason |-> "stop", text |-> "plain"] }

ExecChatEnter == OaChatEnterOf(ExecUtterances)

ExecToolCalls == iteration < MaxExec /\ OaToolCallsOf({<<call>> : call \in ExecCalls})

ExecTextResponse == OaTextResponseOf(ExecAnswers)

NextExec == ExecChatEnter \/ ExecToolCalls \/ ExecTextResponse

SpecExec == InitOpenAI /\ [][NextExec]_vars

(***************************************************************************)
(* SpecPinned: a chat() of OpenAIHandler whose model retrieves results and *)
(* submits searches, one call a turn, so that the pinned context is built  *)
(* and the tour index is emptied after it.                                 *)
(***************************************************************************)
MaxPinned == 3       \* answers with a tool call in the chat()

PinnedCalls ==
    { CallDate("a"), CallSearch("a", Handle(<<"4", "1">>)), CallSearch("a", [kind |-> "raise"]),
      CallResults("a"), CallStatus("a", StatusFinished) }

PinnedChatEnter == OaChatEnterOf(ExecUtterances)

PinnedToolCalls == iteration < MaxPinned /\ OaToolCallsOf({<<call>> : call \in PinnedCalls})

PinnedTextResponse == OaTextResponseOf(ExecAnswers)

NextPinned ==
    \/ PinnedChatEnter
    \/ PinnedToolCalls
    \/ PinnedTextResponse

SpecPinned == InitOpenAI /\ [][NextPinned]_vars

(***************************************************************************)
(* SpecPick: _pick_best_tour applied to the tours of a hotel, for an ideal *)
(* start date and a range of nights between 0 and MaxPickNights.           *)
(***************************************************************************)
MaxPickNights == 8

\* tours of 3 to 9 nights; the later flight is the cheaper one
PickTours ==
    { Tour(<<"8", "1">>, 3, Date(10, 12, 2026), 40), Tour(<<"8", "2">>, 3, Date(12, 12, 2026), 30),
      Tour(<<"8", "3">>, 7, Date(10, 12, 2026), 40), Tour(<<"8", "4">>, 7, Date(12, 12, 2026), 30),
      Tour(<<"8", "5">>, 9, Date(10, 12, 2026), 40), Tour(<<"8", "6">>, 9, Date(12, 12, 2026), 30) }

PickLists == {<<t>> : t \in PickTours} \cup {<<t, u>> : t \in PickTours, u \in PickTours}

PickIdeals ==
    { [datefrom |-> <<Date(10, 12, 2026)>>, nightsfrom |-> <<nf>>, nightsto |-> <<nt>>,
       has_budget |-> FALSE] : nf \in 0..MaxPickNights, nt \in 0..MaxPickNights }

Picked(tours, I) ==
    /\ last' = [op |-> "pick_best_tour", args |-> [tours |-> tours, ideal |-> I],
                result |-> [kind |-> "tour", best |-> pick_best_tour(tours, I)],
                calls |-> <<>>]
    /\ UNCHANGED <<full_history, sessionVars, ndispatch, submitted, max_history_len, appVars,
                   iteration, empty_retries, timeout_retries, geo_retries, reply, input_list,
                   previous_response_id, pinned_context, untrimmed, model_error, built,
                   promise_nudges>>

PickBestTour ==
    /\ pc = "idle"
    /\ \E tours \in PickLists, I \in PickIdeals : I.nightsfrom[1] <= I.nightsto[1] /\ Picked(tours, I)
    /\ pc' = "picked"

NextPick == PickBestTour

SpecPick == Init /\ [][NextPick]_vars

(***************************************************************************)
(* SpecDates: the date correctors of search_tours applied to the arguments *)
(* of a call, and then to the arguments they gave, with the same history   *)
(* and the same current date.                                              *)
(***************************************************************************)
\* year completion, the default and the clamp of the end date, the shift of
\* a past date, the part of the month (yandex_handler.py:1466-1662)
DateCorrectors(args, hist) ==
    CorrectMonthPart(ValidateDateto(CompleteYears(args), hist).args, hist)

DatesFrom ==
    { Date(1, 11, 2026), Date(10, 12, 2026), Date(20, 3, 2027),
      [t |-> "dm", d |-> 5, m |-> 10, pad |-> TRUE] }

DatesTo == { Date(11, 11, 2026), Date(17, 12, 2026), Date(23, 3, 2027) }

DateArgs ==
    LET from == {Put(ArgsBare, "datefrom", d) : d \in DatesFrom}
        to == from \cup {Put(a, "dateto", d) : a \in from, d \in DatesTo}
    IN  to \cup {Put(Put(a, "nightsfrom", 7), "nightsto", 7) : a \in to}

DateTexts ==
    { {}, {"explicit_date_range"}, {"begin_of_march"}, {"middle_of_march"}, {"end_of_december"} }

InitDates ==
    /\ full_history \in {<<Msg("user", text)>> : text \in DateTexts}
    /\ max_history_len = MAX_HISTORY_LEN
    /\ provider = "yandex"
    /\ InitSession
    /\ InitChat

\* last holds the arguments given to the correctors and those they gave
Corrected(args) ==
    /\ last' = [op |-> "search_tours", args |-> args,
                result |-> [kind |-> "dates", repaired |-> DateCorrectors(args, full_history)],
                calls |-> <<>>]
    /\ UNCHANGED <<full_history, sessionVars, ndispatch, submitted, max_history_len, appVars,
                   iteration, empty_retries, timeout_retries, geo_retries, reply, input_list,
                   previous_response_id, pinned_context, untrimmed, model_error, built,
                   promise_nudges>>

CorrectDates ==
    /\ pc = "idle"
    /\ \E args \in DateArgs : Corrected(args)
    /\ pc' = "corrected"

CorrectDatesAgain ==
    /\ pc = "corrected"
    /\ Corrected(last.result.repaired)
    /\ pc' = "again"

NextDates == CorrectDates \/ CorrectDatesAgain

SpecDates == InitDates /\ [][NextDates]_vars

(***************************************************************************)
(* The response sanitizer.  A text is the sequence of its pieces:          *)
(* "sentence" is 'Подобрал для вас пять отличных вариантов.', "question"   *)
(* is 'Какой из отелей вас заинтересовал?', "tool_name" is 'search_tours', *)
(* "orphan" is 'Отлично', "marker" is 'We need to', "json" is              *)
(* '{"role":"assistant"', "space" and "newline" are one character each.    *)
(* No piece holds a part of another, so a search in the string is a search *)
(* in the sequence.                                                        *)
(***************************************************************************)
Pieces == {"sentence", "question", "tool_name", "orphan", "marker", "json", "space", "newline"}

PieceLen(a) ==
    CASE a = "sentence" -> 41 [] a = "question" -> 34 [] a = "tool_name" -> 12
      [] a = "orphan" -> 7 [] a = "marker" -> 10 [] a = "json" -> 19 [] OTHER -> 1

IsBlank(a) == a \in {"space", "newline"}

RECURSIVE TextLen(_)
TextLen(text) == IF text = <<>> THEN 0 ELSE PieceLen(Head(text)) + TextLen(Tail(text))

RECURSIVE LStrip(_)
LStrip(text) == IF text # <<>> /\ IsBlank(Head(text)) THEN LStrip(Tail(text)) ELSE text

RECURSIVE RStrip(_)
RStrip(text) ==
    IF text # <<>> /\ IsBlank(Last(text)) THEN RStrip(SubSeq(text, 1, Len(text) - 1)) ELSE text

Strip(text) == LStrip(RStrip(text))

\* text[:i] of Python for the piece at position i (counted from 1)
Before(text, i) == SubSeq(text, 1, i - 1)

\* position of the first piece a at or after position from, 0 if none
RECURSIVE IndexOfPiece(_, _, _)
IndexOfPiece(text, a, from) ==
    IF from > Len(text) THEN 0
    ELSE IF text[from] = a THEN from
    ELSE IndexOfPiece(text, a, from + 1)

\* str.find(part, from): position of the first occurrence, 0 if none
RECURSIVE FindText(_, _, _)
FindText(text, part, from) ==
    IF from + Len(part) - 1 > Len(text) THEN 0
    ELSE IF SubSeq(text, from, from + Len(part) - 1) = part THEN from
    ELSE FindText(text, part, from + 1)

\* yandex_handler.py:969-997
dedup_response(text) ==
    LET first_newline == IndexOfPiece(text, "newline", 1)
        first_line == Strip(Before(text, first_newline))
        second == FindText(text, first_line, first_newline + 1)
    IN  IF TextLen(text) < 100 THEN text
        ELSE IF first_newline = 0 \/ TextLen(Before(text, first_newline)) < 5 THEN text
        ELSE IF TextLen(first_line) < 10 THEN text
        ELSE IF second > 0 THEN RStrip(Before(text, second))
        ELSE text

\* one pass of _strip_reasoning_leak: the text before the first match
StripFrom(text, a) ==
    LET i == IndexOfPiece(text, a, 1)
        candidate == RStrip(Before(text, i))
    IN  IF i > 0 /\ TextLen(Before(text, i)) > 30 /\ TextLen(candidate) >= 20
        THEN candidate ELSE text

\* yandex_handler.py:1016-1057
strip_reasoning_leak(text) ==
    IF TextLen(text) < 40 THEN text ELSE StripFrom(StripFrom(text, "json"), "marker")

\* the match of [^.!?\n]*\? that ends with the question at position i
QuestionAt(text, i) ==
    LET ends == {j \in 1..(i - 1) : text[j] \in {"sentence", "question", "newline"}}
        from == IF ends = {} THEN 1 ELSE 1 + (CHOOSE j \in ends : \A k \in ends : k <= j)
    IN  SubSeq(text, from, i)

RECURSIVE DedupFrom(_, _)
DedupFrom(text, i) ==
    IF i > Len(text) THEN text
    ELSE IF text[i] # "question" THEN DedupFrom(text, i + 1)
    ELSE LET q_stripped == Strip(QuestionAt(text, i))
             first_pos == FindText(text, q_stripped, 1)
             second_pos == FindText(text, q_stripped, first_pos + Len(q_stripped))
             cleaned == RStrip(Before(text, first_pos + Len(q_stripped)))
         IN  IF TextLen(q_stripped) >= 20 /\ second_pos > 0 /\ TextLen(cleaned) >= 20
             THEN cleaned
             ELSE DedupFrom(text, i + 1)

\* yandex_handler.py:1061-1083
dedup_sentences(text) == IF TextLen(text) < 60 THEN text ELSE DedupFrom(text, 1)

\* position of the last question, 0 if none
LastQuestion(text) ==
    LET qs == {i \in 1..Len(text) : text[i] = "question"}
    IN  IF qs = {} THEN 0 ELSE CHOOSE i \in qs : \A k \in qs : k <= i

\* _RE_ORPHAN_START.match: blanks, the word, and no letter right after it
OrphanStart(trailing) ==
    LET r == LStrip(trailing)
    IN  /\ r # <<>>
        /\ r[1] = "orphan"
        /\ Len(r) > 1 => r[2] \in {"space", "newline", "json"}

\* yandex_handler.py:1095-1124
strip_trailing_fragment(text) ==
    LET last_q == LastQuestion(text)
        trailing == SubSeq(text, last_q + 1, Len(text))
        trailing_stripped == Strip(trailing)
        cleaned == RStrip(SubSeq(text, 1, last_q))
    IN  IF TextLen(text) < 50 THEN text
        ELSE IF last_q = 0 \/ TextLen(SubSeq(text, 1, last_q)) - 1 < 30 THEN text
        ELSE IF trailing_stripped = <<>> THEN text
        ELSE IF TextLen(trailing_stripped) >= 60 \/ Last(trailing_stripped) = "sentence" THEN text
        ELSE IF OrphanStart(trailing) /\ TextLen(cleaned) >= 20 THEN cleaned
        ELSE text

\* _RE_FUNC_NAMES.sub('', text)
strip_func_names(text) == SelectSeq(text, LAMBDA a : a # "tool_name")

\* re.sub(r'\s{2,}', ' ', text)
RECURSIVE collapse_blanks(_)
collapse_blanks(text) ==
    IF Len(text) < 2 THEN text
    ELSE IF IsBlank(text[1]) /\ IsBlank(text[2])
    THEN collapse_blanks(<<"space">> \o LStrip(text))
    ELSE <<Head(text)>> \o collapse_blanks(Tail(text))

\* the sanitizers of the final text in the order of chat()
\* (openai_handler.py:755-769)
sanitize(text) ==
    Strip(collapse_blanks(strip_func_names(strip_trailing_fragment(
        dedup_sentences(strip_reasoning_leak(dedup_response(text)))))))

(***************************************************************************)
(* SpecSanitize: the sanitizers applied to a final text of at most MaxText *)
(* pieces, and then to the text they gave.                                 *)
(***************************************************************************)
MaxText == 5

RECURSIVE Texts(_)
Texts(n) ==
    IF n = 0 THEN {<<>>}
    ELSE Texts(n - 1) \cup {Append(t, a) : t \in {u \in Texts(n - 1) : Len(u) = n - 1}, a \in Pieces}

\* last holds the text given to the sanitizers and the text they gave
Sanitized(text) ==
    /\ last' = [op |-> "sanitize", args |-> text,
                result |-> [kind |-> "text", text |-> sanitize(text)], calls |-> <<>>]
    /\ UNCHANGED <<full_history, sessionVars, ndispatch, submitted, max_history_len, appVars,
                   iteration, empty_retries, timeout_retries, geo_retries, reply, input_list,
                   previous_response_id, pinned_context, untrimmed, model_error, built,
                   promise_nudges>>

SanitizeText ==
    /\ pc = "idle"
    /\ \E text \in Texts(MaxText) : Sanitized(text)
    /\ pc' = "sanitized"

SanitizeAgain ==
    /\ pc = "sanitized"
    /\ Sanitized(last.result.text)
    /\ pc' = "again"

NextSanitize == SanitizeText \/ SanitizeAgain

SpecSanitize == Init /\ [][NextSanitize]_vars

(***************************************************************************)
(* SpecCleanup: _cleanup_history applied to any history, well formed or    *)
(* not, of at most MaxTurns turns.                                         *)
(***************************************************************************)
MaxTurns == 5

AnyTurns ==
    { Msg("user", {}), Msg("assistant", {}), ToolCallMsg(<<"a">>), ToolCallMsg(<<"a", "b">>),
      ToolMsg("a", {"result"}), ToolMsg("b", {"result"}) }

RECURSIVE AnyHistories(_)
AnyHistories(n) ==
    IF n = 0 THEN {<<>>}
    ELSE AnyHistories(n - 1)
            \cup {Append(h, t) : h \in {g \in AnyHistories(n - 1) : Len(g) = n - 1}, t \in AnyTurns}

InitCleanup ==
    /\ full_history \in AnyHistories(MaxTurns)
    /\ max_history_len = MAX_HISTORY_LEN
    /\ provider = "openai"
    /\ InitSession
    /\ InitChat

\* untrimmed keeps the history as it was given
CleanupHistory ==
    /\ pc = "idle"
    /\ full_history' = cleanup_history(full_history)
    /\ untrimmed' = full_history
    /\ pc' = "cleaned"
    /\ UNCHANGED <<sessionVars, ndispatch, last, submitted, max_history_len, appVars, iteration,
                   empty_retries, timeout_retries, geo_retries, reply, input_list,
                   previous_response_id, pinned_context, model_error, built,
                   promise_nudges>>

NextCleanup == CleanupHistory

SpecCleanup == InitCleanup /\ [][NextCleanup]_vars

(***************************************************************************)
(* SpecFail: chat() of OpenAIHandler when the calls of the model fail, in  *)
(* a session that holds an earlier dialogue.                               *)
(***************************************************************************)
MaxFailures == 4     \* model calls of one chat() that can fail

\* six turns of an earlier dialogue without tool calls
ShortDialogue == [i \in 1..6 |-> IF i % 2 = 1 THEN Msg("user", {}) ELSE Msg("assistant", {})]

InitFail ==
    /\ full_history \in {ShortDialogue, LongHistory}
    /\ max_history_len = MAX_HISTORY_LEN
    /\ provider = "openai"
    /\ InitSession
    /\ InitChat

FailChatEnter == OaChatEnterOf({{}})

FailApiError == iteration < MaxFailures /\ OaApiErrorOf(ProviderErrors)

FailTextResponse == OaTextResponseOf(TextAnswers)

NextFail ==
    \/ FailChatEnter
    \/ FailApiError
    \/ FailTextResponse

SpecFail == InitFail /\ [][NextFail]_vars

(***************************************************************************)
(* SpecTurn: a chat() of the OpenAI handler whose message is said nowhere  *)
(* else in the dialogue, with failing model calls, tool calls and final    *)
(* texts in any order.                                                     *)
(***************************************************************************)
TurnUtterances == { {"travelers"} }

TurnChatEnter == OaChatEnterOf(TurnUtterances)

TurnApiError == iteration < MaxFailures /\ OaApiErrorOf(ProviderErrors)

TurnToolCalls == iteration < MaxFailures /\ OaToolCallsOf(PlainTurns)

TurnTextResponse == OaTextResponseOf(TextAnswers)

NextTurn ==
    \/ TurnChatEnter
    \/ TurnApiError
    \/ TurnToolCalls
    \/ TurnTextResponse

SpecTurn == InitFail /\ [][NextTurn]_vars

\* C4: in a chat() of OpenAIHandler entered with a well-formed history, the
\* history is well-formed at every call of the model: every assistant turn
\* with invocations is followed at once by exactly one tool turn per
\* invocation id, whatever the tools and the provider did before.
C4_WellFormedAtModelCall ==
    (pc = "loop" /\ iteration < OA_MAX_ITERATIONS) => WellFormed(full_history)

\* a model call after a turn of two invocations, one with malformed arguments
\* and one that met an unexpected exception, on a history that was trimmed
C4_Witness ==
    /\ pc = "loop" /\ iteration < OA_MAX_ITERATIONS
    /\ Len(untrimmed) > MAX_HISTORY_LEN
    /\ \E i \in 1..(Len(full_history) - 2) :
          /\ Len(full_history[i].tool_calls) = 2
          /\ full_history[i + 1].text = {"invalid_json"}
          /\ full_history[i + 2].text = {"unexpected_error"}

(***************************************************************************)
(* YandexGPTHandler.chat (yandex_handler.py:2988-3359).  input_list names  *)
(* what the next request carries: "new_message", "history",                *)
(* "history_nudge", "empty", or one of the nudges; previous_response_id is *)
(* TRUE when an id is stored.                                              *)
(***************************************************************************)
\* max_iterations (yandex_handler.py:3015)
YA_MAX_ITERATIONS == 15

\* the shrink after a token-limit error (yandex_handler.py:3077-3080)
yandex_shrink_history(hist) ==
    IF Len(hist) > 8 THEN SubSeq(hist, 1, 2) \o SubSeq(hist, Len(hist) - 3, Len(hist)) ELSE hist

YaContinue(hist, er, prev, inp) ==
    [hist |-> hist, er |-> er, prev |-> prev, input |-> inp, cont |-> TRUE, reply |-> "none"]

YaReturn(hist, er, prev, inp, text) ==
    [hist |-> hist, er |-> er, prev |-> prev, input |-> inp, cont |-> FALSE, reply |-> text]

\* the except branch of the model call (yandex_handler.py:3042-3093)
yandex_on_api_error(hist, err, er, prev, inp) ==
    IF "403" \in err
    THEN IF er < 2 THEN YaContinue(hist, er + 1, FALSE, "history_nudge")
         ELSE YaReturn(hist, er, FALSE, inp, "technical_error")
    ELSE IF "429" \in err THEN YaReturn(hist, er, prev, inp, "overloaded")
    ELSE IF "status_failed" \in err THEN YaContinue(hist, er, FALSE, "history")
    ELSE IF "400_token" \in err
    THEN IF er < 2 THEN YaContinue(yandex_shrink_history(hist), er + 1, FALSE, "history")
         ELSE YaReturn(yandex_shrink_history(hist), er, FALSE, "history", "dialog_too_long")
    ELSE YaReturn(hist, er, FALSE, inp, "temporary_error")

YandexErrors == { {"403"}, {"429"}, {"status_failed"}, {"400_token"}, {} }

\* the two turns that record the calls of an answer and their outputs
\* (yandex_handler.py:3124-3126, 3255-3257); parts is the number of outputs
\* that went into the summary
record_calls(hist, parts) ==
    LET h1 == append_history(hist, "assistant", {})
    IN  IF parts > 0 THEN append_history(h1, "user", {"results_prefix"}) ELSE h1

\* the greeting put before the first user turn after a content filter
\* (yandex_handler.py:3178-3193), marked by _cf_greeting
HasGreeting(hist) == \E i \in 1..Len(hist) : "cf_greeting" \in hist[i].text

insert_greeting(hist) ==
    LET users == {i \in 1..Len(hist) : hist[i].role = "user"}
    IN  IF HasGreeting(hist) \/ users = {} THEN hist
        ELSE LET i == CHOOSE u \in users : \A v \in users : u <= v
             IN  SubSeq(hist, 1, i - 1) \o <<Msg("assistant", {"cf_greeting"})>>
                    \o SubSeq(hist, i, Len(hist))

remove_greeting(hist) == SelectSeq(hist, LAMBDA m : "cf_greeting" \notin m.text)

\* the text branch without the plaintext calls (yandex_handler.py:3132-3356);
\* answer is [output_empty, content_filter, text], text being "empty",
\* "self_moderation", "promised", "rejected_call", "leak" or "plain"
YaTextOut(hist, er, prev, inp, m, cont, text) ==
    [hist |-> hist, er |-> er, prev |-> prev, input |-> inp, metrics |-> m,
     cont |-> cont, reply |-> text]

yandex_on_text(hist, S, er, prev_id, inp, answer) ==
    LET prev == IF answer.output_empty THEN prev_id ELSE TRUE
        text == answer.text
    IN  IF text = "empty" /\ answer.output_empty
        THEN IF er + 1 >= 3
             THEN YaTextOut(hist, er + 1, prev, inp, S.metrics, FALSE,
                            IF S.cards # <<>> THEN "found_options" ELSE "could_not_process")
             ELSE YaTextOut(hist, er + 1, FALSE, "history_nudge", S.metrics, TRUE, "none")
        ELSE IF answer.content_filter \/ text = "self_moderation"
        THEN IF er + 1 >= 3
             THEN YaTextOut(hist, er + 1, prev, inp, S.metrics, FALSE, "rephrase_error")
             ELSE YaTextOut(insert_greeting(hist), er + 1, FALSE, "empty", S.metrics, TRUE, "none")
        ELSE LET promised == text = "promised"
                 rejected == text = "rejected_call"
                 leak == text = "leak"
                 er1 == IF promised THEN er + 1 ELSE er
                 m1 == IF promised THEN Inc(S.metrics, "promised_search_detections") ELSE S.metrics
                 er2 == IF rejected THEN er1 + 1 ELSE er1
                 m2 == IF rejected THEN Inc(m1, "rejected_tool_calls_sanitized") ELSE m1
                 h2 == IF rejected THEN Append(hist, Msg("assistant", {})) ELSE hist
                 inp2 == IF rejected THEN "nudge_unavailable" ELSE inp
                 m3 == IF leak THEN Inc(m2, "result_leak_filtered") ELSE m2
                 er3 == IF leak /\ S.cards = <<>> THEN er2 + 1 ELSE er2
             IN  IF promised /\ er1 < 2
                 THEN YaTextOut(hist, er1, prev, "nudge_search", m1, TRUE, "none")
                 ELSE IF rejected /\ er2 < 3
                 THEN YaTextOut(h2, er2, prev, inp2, m2, TRUE, "none")
                 ELSE IF leak /\ S.cards = <<>> /\ er3 < 3
                 THEN YaTextOut(Append(h2, Msg("assistant", {"results_prefix"})), er3, prev,
                                "nudge_plain", m3, TRUE, "none")
                 ELSE YaTextOut(remove_greeting(Append(h2, Msg("assistant", {}))), er3, prev,
                                "empty", m3, FALSE,
                                IF rejected THEN "cannot_find_info"
                                ELSE IF ~leak THEN "model_text"
                                ELSE IF S.cards # <<>> THEN "found_options" ELSE "processed")

YandexAnswers ==
    { [output_empty |-> e, content_filter |-> f, text |-> t] :
         e \in BOOLEAN, f \in BOOLEAN,
         t \in {"empty", "self_moderation", "promised", "rejected_call", "leak", "plain"} }

\* what the client can answer: no text comes with an empty output
PossibleAnswers == {a \in YandexAnswers : a.output_empty => a.text = "empty"}

YaChatEnterOf(texts) ==
    /\ pc = "idle"
    /\ \E text \in texts :
         /\ untrimmed' = Append(full_history, Msg("user", text))
         /\ full_history' = yandex_trim_history(untrimmed', max_history_len)
    /\ SetSession([Session EXCEPT !.cards = <<>>, !.metrics = Inc(@, "total_messages")])
    /\ input_list' = "new_message"
    /\ iteration' = 0
    /\ empty_retries' = 0
    /\ pc' = "loop"
    /\ model_error' = <<>>
    /\ built' = <<>>
    /\ promise_nudges' = 0
    /\ UNCHANGED <<ndispatch, last, submitted, max_history_len, appVars, timeout_retries, geo_retries,
                   reply, previous_response_id, pinned_context>>

YaChatEnter == YaChatEnterOf(ChatUtterances)

YaApiError ==
    /\ pc = "loop" /\ iteration < YA_MAX_ITERATIONS /\ iteration < MaxRich
    /\ \E err \in YandexErrors :
         LET r == yandex_on_api_error(full_history, err, empty_retries, previous_response_id,
                                      input_list)
         IN  /\ model_error' = <<err>>
             /\ full_history' = r.hist
             /\ empty_retries' = r.er
             /\ previous_response_id' = r.prev
             /\ input_list' = r.input
             /\ pc' = IF r.cont THEN "loop" ELSE "done"
             /\ reply' = r.reply
    /\ iteration' = iteration + 1
    /\ UNCHANGED <<sessionVars, ndispatch, last, submitted, max_history_len, appVars, timeout_retries,
                   geo_retries, pinned_context, untrimmed, built, promise_nudges>>

\* the state after the calls of an answer ran as run and parts of their
\* outputs went into the summary
FunctionCallsDone(n, parts, run) ==
    /\ full_history' = record_calls(full_history, parts)
    /\ Executed(run, n)

\* function_call items of the answer (yandex_handler.py:3099-3130)
YaFunctionCallsOf(turns) ==
    /\ pc = "loop" /\ iteration < YA_MAX_ITERATIONS
    /\ \E turn \in turns :
         FunctionCallsDone(Len(turn), Len(turn),
                           RunCalls(Session, turn, [i \in 1..Len(turn) |-> i], full_history))
    /\ input_list' = "empty"
    /\ previous_response_id' = TRUE
    /\ iteration' = iteration + 1
    /\ model_error' = <<>>
    /\ UNCHANGED <<max_history_len, appVars, pc, empty_retries, timeout_retries, geo_retries, reply,
                   pinned_context, untrimmed>>

YaFunctionCalls == YaFunctionCallsOf(IF iteration < MaxRich THEN RichTurns ELSE PlainTurns)

\* the outputs left out of the summary for the error text they carry
\* (yandex_handler.py:3246-3248)
Skipped(run, n, timeout_text) ==
    IF timeout_text THEN Cardinality({i \in 1..n : run.out[i] = "unexpected_error"}) ELSE 0

PlaintextCallsDone(n, timeout_text, run) ==
    FunctionCallsDone(n, n - Skipped(run, n, timeout_text),
                      [run EXCEPT !.S.metrics = Inc(@, "plaintext_tool_call_recoveries")])

\* the text branch applied to an answer of the model
YaTextHandled(answer) ==
    LET r == yandex_on_text(full_history, Session, empty_retries, previous_response_id,
                            input_list, answer)
    IN  /\ full_history' = r.hist
        /\ empty_retries' = r.er
        /\ previous_response_id' = r.prev
        /\ input_list' = r.input
        /\ SetSession([Session EXCEPT !.metrics = r.metrics])
        /\ pc' = IF r.cont THEN "loop" ELSE "done"
        /\ reply' = r.reply
        /\ promise_nudges' = IF r.cont /\ r.input = "nudge_search"
                             THEN promise_nudges + 1 ELSE promise_nudges
        /\ UNCHANGED <<ndispatch, last, submitted, built>>

\* what else the text that holds the calls matches
CallTexts ==
    { [output_empty |-> FALSE, content_filter |-> f, text |-> t] :
         f \in BOOLEAN, t \in {"plain", "promised", "self_moderation"} }

\* the branches of the text that stand before the extraction of the calls
\* and leave the loop iteration (yandex_handler.py:3158-3221)
Preempted(answer, er) ==
    \/ answer.content_filter
    \/ answer.text = "self_moderation"
    \/ answer.text = "promised" /\ er + 1 < 2

\* the calls of the text run; a promise that is not nudged any more has been
\* counted before (yandex_handler.py:3200-3207)
PlaintextRecovered(turn, timeout_text, promised) ==
    /\ PlaintextCallsDone(Len(turn), timeout_text,
                          RunCalls(IF promised
                                   THEN [Session EXCEPT
                                            !.metrics = Inc(@, "promised_search_detections")]
                                   ELSE Session,
                                   turn, [i \in 1..Len(turn) |-> i], full_history))
    /\ empty_retries' = IF promised THEN empty_retries + 1 ELSE empty_retries
    /\ input_list' = "empty"
    /\ previous_response_id' = TRUE
    /\ UNCHANGED <<pc, reply>>

\* calls written as text (yandex_handler.py:3132-3261); timeout_text says that
\* the text of an unexpected exception names a timeout
YaPlaintextCalls ==
    /\ pc = "loop" /\ iteration < YA_MAX_ITERATIONS /\ iteration < MaxRich
    /\ \E turn \in RichTurns, timeout_text \in BOOLEAN, answer \in CallTexts :
         IF Preempted(answer, empty_retries)
         THEN YaTextHandled(answer)
         ELSE PlaintextRecovered(turn, timeout_text, answer.text = "promised")
    /\ iteration' = iteration + 1
    /\ model_error' = <<>>
    /\ UNCHANGED <<max_history_len, appVars, timeout_retries, geo_retries, pinned_context,
                   untrimmed>>

YaTextResponseOf(answers) ==
    /\ pc = "loop" /\ iteration < YA_MAX_ITERATIONS
    /\ \E answer \in answers : YaTextHandled(answer)
    /\ iteration' = iteration + 1
    /\ model_error' = <<>>
    /\ UNCHANGED <<max_history_len, appVars, timeout_retries, geo_retries, pinned_context,
                   untrimmed>>

YaTextResponse == iteration < MaxRich /\ YaTextResponseOf(PossibleAnswers)

YaCeiling ==
    /\ pc = "loop" /\ iteration >= YA_MAX_ITERATIONS
    /\ reply' = "iterations_exceeded"
    /\ pc' = "done"
    /\ UNCHANGED <<dispatchVars, max_history_len, appVars, iteration, empty_retries, timeout_retries,
                   geo_retries, input_list, previous_response_id, pinned_context, untrimmed, model_error, built,
                   promise_nudges>>

\* a dialogue of alternating turns as long as _max_history_len
LongDialogue ==
    [i \in 1..MAX_HISTORY_LEN |-> IF i % 2 = 1 THEN Msg("user", {}) ELSE Msg("assistant", {})]

InitYandex ==
    /\ full_history \in {<<>>, LongDialogue}
    /\ max_history_len = MAX_HISTORY_LEN
    /\ provider = "yandex"
    /\ InitSession
    /\ InitChat

NextYandex ==
    \/ YaChatEnter
    \/ YaApiError
    \/ YaFunctionCalls
    \/ YaPlaintextCalls
    \/ YaTextResponse
    \/ YaCeiling

SpecYandex == InitYandex /\ [][NextYandex]_vars

\* C5: every chat() makes at most its fixed number of model calls (15 in the
\* Yandex handler) and, when the loop ends at that ceiling without a final
\* answer, returns the fixed "request too complex, please retry" sentence.
C5_CeilingReturnsTooComplex ==
    [][ /\ iteration' <= YA_MAX_ITERATIONS
        /\ (pc = "loop" /\ iteration >= YA_MAX_ITERATIONS /\ pc' = "done")
              => reply' = "too_complex" ]_vars

\* the fixed sentences chat() returns in place of the text of the model
FixedSentences ==
    {"overloaded", "dialog_too_long", "temporary_error", "technical_error", "rephrase_error",
     "could_not_process", "found_options", "processed", "cannot_find_info", "too_complex"}

\* C6: whatever the provider and the tools did, the value chat() returns is
\* the sanitized text of the model or one of the fixed non-technical
\* sentences, never internal diagnostic wording.
C6_ReplyIsTextOrFixedSentence ==
    (pc = "done") => reply \in {"model_text"} \cup FixedSentences

(***************************************************************************)
(* Properties of the dispatcher                                            *)
(***************************************************************************)
SearchToursCalled == \E i \in 1..Len(last.calls) : last.calls[i].fn = "search_tours"

\* what the detectors of the cascade take as the statement of a slot
SlotFeatures ==
    {"departure", "specific_date", "bare_month", "nights", "travelers", "stars", "meal",
     "skip", "brand"}

NoSlotStated == UserText(full_history) \cap SlotFeatures = {}

\* C1: when the user has stated none of the four slots, a search_tours
\* dispatch returns a blocking error about one missing item and
\* TourVisorClient.search_tours is not called.
C1_GateBlocksUnstated ==
    (last.op = "search_tours" /\ NoSlotStated)
        => /\ last.result.kind \in {"error_cascade", "error_departure_array", "error_resort"}
           /\ ~SearchToursCalled

\* a step that is a search_tours dispatch blocked by the slot validator
BlockedStep ==
    /\ ndispatch' # ndispatch
    /\ last'.op = "search_tours"
    /\ last'.result.kind = "error_cascade"

C7_FollowUpOnlyAfterSubmission == IsFollowUp(last_search_params) => submitted

\* a step that is a search_tours dispatch which called the client
SubmitStep ==
    /\ ndispatch' # ndispatch
    /\ last'.op = "search_tours"
    /\ last'.result.kind \in {"requestid", "error_no_request", "exception"}

PositionalCase ==
    /\ last.op \in {"get_tour_details", "actualize_tour"}
    /\ ~IsDigitStr(GetStr(last.args, "tourid"))
    /\ DOMAIN tourid_map = 1..TopN

\* positions whose ordinal word or digit occurs in the offer id of the last dispatch
PositionsNamed ==
    {ORDINAL_MAP[i].pos : i \in {j \in 1..Len(ORDINAL_MAP) :
                                    Contains(Lower(GetStr(last.args, "tourid")), ORDINAL_MAP[j].kw)}}

\* C9 as stated: with positions 1..5 indexed, a get_tour_details or
\* actualize_tour call whose offer id is not numeric and contains the ordinal
\* word or digit of position p queries the client with the offer at position p.
C9_ResolvesNamedPosition ==
    PositionalCase =>
        \A p \in PositionsNamed :
            last.calls # <<>> /\ last.calls[1].arg = tourid_map[p].tourid

\* C9, amended: the client is queried with the offer at the lowest position
\* whose ordinal word or digit occurs in the offer id.
C9_ResolvesLowestNamedPosition ==
    (PositionalCase /\ PositionsNamed # {}) =>
        LET p == CHOOSE q \in PositionsNamed : \A r \in PositionsNamed : q <= r
        IN  last.calls # <<>> /\ last.calls[1].arg = tourid_map[p].tourid

\* "3/5" resolved to the offer at position 3
C9_Witness ==
    /\ PositionalCase
    /\ PositionsNamed = {3, 5}
    /\ last.calls[1].arg = tourid_map[3].tourid
    /\ tourid_map[3].tourid # tourid_map[1].tourid

\* the last dispatch took a request handle that is not numeric
PlaceholderHandleCase ==
    /\ last.op \in {"get_search_status", "get_search_results", "continue_search"}
    /\ ~IsDigitStr(GetStr(last.args, "requestid"))

\* C10: get_search_status, get_search_results and continue_search with a
\* request handle that is not numeric query the client with the cached handle
\* when there is one, and otherwise return an error without calling the client.
C10_PlaceholderHandle ==
    PlaceholderHandleCase =>
        IF last_requestid # <<>>
        THEN /\ last.calls # <<>>
             /\ \A i \in 1..Len(last.calls) : last.calls[i].arg = last_requestid
        ELSE /\ last.result.kind = "error_requestid"
             /\ last.calls = <<>>

\* continue_search with a placeholder, answered from the cached handle
C10_Witness ==
    /\ PlaceholderHandleCase
    /\ last.op = "continue_search"
    /\ last_requestid # <<>>
    /\ last.calls[1].arg = last_requestid

\* the last dispatch asked the client about an offer
OfferCase ==
    /\ last.op \in {"get_tour_details", "actualize_tour"}
    /\ last.calls # <<>>

\* C11: when the inventory API reports the offer of a get_tour_details or
\* actualize_tour call as expired or erroneous, the result given to the model
\* is the "expired, search again" error, and the data of a details or tour
\* result is never that of another offer than the one asked about.
C11_ExpiredOfferYieldsExpiredError ==
    OfferCase =>
        /\ last.calls[1].ret \in {"expired", "iserror"} => last.result.kind = "expired_error"
        /\ last.result.kind \in {"details", "tour"} => last.result.of = last.calls[1].arg

\* every assistant turn with invocations is followed by the tool turns of its
\* invocations in the order of the invocations
InIssueOrder(hist) ==
    \A i \in 1..Len(hist) :
        IsToolCall(hist[i]) =>
            \A k \in 1..Len(hist[i].tool_calls) :
                /\ i + k <= Len(hist)
                /\ hist[i + k].role = "tool"
                /\ hist[i + k].tool_call_id = hist[i].tool_calls[k]

\* C12: when a turn of the model holds several tool calls, which run
\* concurrently, the tool turns are appended to the history in the order the
\* calls were issued, in whatever order the calls complete.
C12_ResultsInIssueOrder == InIssueOrder(full_history)

\* the two calls of a turn completed in the reverse order: the search_tours
\* issued first was the last to complete, after the get_search_results
C12_Witness ==
    /\ pc = "loop"
    /\ Len(full_history) >= 3
    /\ LET n == Len(full_history)
       IN  /\ full_history[n - 2].tool_calls = <<"a", "b">>
           /\ full_history[n - 1].tool_call_id = "a"
           /\ full_history[n].tool_call_id = "b"
    /\ last.op = "search_tours"
    /\ last.result.kind = "requestid"
    /\ pending_tour_cards = <<>>


(***************************************************************************)
(* C16, C17: the hotels of get_search_results, their cards and their order *)
(***************************************************************************)
ResultsCase == last.op = "get_search_results" /\ last.result.kind = "hotels"

\* C16: after a get_search_results dispatch that returned hotels, at most 5
\* offers are returned, the pending cards are as many as the returned offers
\* and in their order, and every position of the tour index holds the offer
\* id of the card at that display position (counted from 1).
C16_CardsMatchTourIndex ==
    ResultsCase =>
        /\ Len(last.result.hotels) <= 5
        /\ Len(pending_tour_cards) = Len(last.result.hotels)
        /\ \A i \in 1..Len(pending_tour_cards) :
              /\ pending_tour_cards[i].hotel = last.result.hotels[i].hotelcode
              /\ pending_tour_cards[i].id = last.result.hotels[i].tourid
        /\ \A p \in DOMAIN tourid_map :
              /\ p \in 1..Len(pending_tour_cards)
              /\ tourid_map[p].tourid = pending_tour_cards[p].id

\* six hotels were found and five kept in the order of relevance; and, in
\* another state, a hotel without an offer stands before one with an offer
C16_Witness ==
    /\ ResultsCase
    /\ ideal.datefrom # <<>> /\ ~ideal.has_budget
    /\ Len(pending_tour_cards) = 5
    /\ DOMAIN tourid_map = 1..5
    /\ pending_tour_cards[1].hotel = 16

\* the nights of the card are inside the requested range
InRange(card) == ideal.nightsfrom[1] <= card.nights /\ card.nights <= ideal.nightsto[1]

\* C17: when no budget was given, get_search_results orders the hotels so
\* that every hotel whose best tour has nights inside [nightsfrom, nightsto]
\* precedes every hotel whose best tour is outside, and inside the range the
\* nights closer to the upper bound come first.
C17_InRangeNightsFirst ==
    (ResultsCase /\ ~ideal.has_budget /\ ideal.nightsfrom # <<>> /\ ideal.nightsto # <<>>) =>
        \A i, j \in 1..Len(pending_tour_cards) :
            (i < j /\ pending_tour_cards[i].id # <<>> /\ pending_tour_cards[j].id # <<>>) =>
                /\ InRange(pending_tour_cards[j]) => InRange(pending_tour_cards[i])
                /\ (InRange(pending_tour_cards[i]) /\ InRange(pending_tour_cards[j])) =>
                      pending_tour_cards[i].nights >= pending_tour_cards[j].nights


(***************************************************************************)
(* C19: the quality slot of the first search                               *)
(***************************************************************************)
\* the user's text states stars and meal, or the user's latest message has a
\* don't-care phrase, or the user's text names a hotel brand and a meal
QualityStated(hist) ==
    \/ {"stars", "meal"} \subseteq UserText(hist)
    \/ UserMessages(hist) # <<>> /\ "skip" \in Last(UserMessages(hist)).text
    \/ {"brand", "meal"} \subseteq UserText(hist)

\* a step that dispatches search_tours before any search was submitted
FirstSearchStep ==
    /\ ndispatch' # ndispatch
    /\ last'.op = "search_tours"
    /\ ~submitted

\* C19: the quality slot counts as satisfied only when the user's text states
\* both a star category and a meal type, or the user's latest message has a
\* don't-care phrase, or the user's text names a hotel brand with a meal type;
\* in every other case a first search_tours is blocked and no search is
\* submitted, whatever stars and meal the arguments carry.
C19_QualityOnlyFromUserText ==
    [][(FirstSearchStep /\ ~QualityStated(full_history)) =>
          /\ last'.result.kind \in {"error_cascade", "error_departure_array", "error_resort"}
          /\ ~CallsFn(last'.calls, "search_tours")]_vars


(***************************************************************************)
(* C20: a rate-limit failure of the model call ends chat()                 *)
(***************************************************************************)
RateLimited == model_error # <<>> /\ "429" \in model_error[1]

\* C20: when a model call of OpenAIHandler.chat() fails with a rate-limit
\* error, chat() returns the "service overloaded" apology at once: it is not
\* in its loop any more, so it makes no further model call, whatever the
\* retry counters hold.
C20_RateLimitReturnsAtOnce ==
    RateLimited => (pc = "done" /\ reply = "overloaded")

\* the rate-limit failure, whose text also names a timeout, came after a
\* timeout that was retried
C20_Witness ==
    /\ RateLimited
    /\ "timeout" \in model_error[1]
    /\ timeout_retries = 1
    /\ iteration = 2
    /\ reply = "overloaded"


(***************************************************************************)
(* C18: how the polling of a search ends                                   *)
(***************************************************************************)
PollCase == last.op \in {"get_search_status", "wait_for_search"} /\ last.calls # <<>>

\* the polls that fit into the wait of the loop that was run
PollBudget ==
    IF last.op = "get_search_status" THEN MAX_WAIT \div POLL_INTERVAL
    ELSE WAIT_MAX_WAIT \div WAIT_POLL_INTERVAL

\* C18: polling a search ends within its wait budget; if the search finished
\* with zero hotels or zero tours, or the wait ran out with zero hotels
\* found, the no-results condition is raised; if the wait ran out with at
\* least one hotel found, the partial status or results are returned and not
\* an error.  This holds for TourVisorClient.wait_for_search and for the
\* polling loop of the get_search_status dispatch.
C18_PollingOutcome ==
    PollCase =>
        /\ last.result.polls <= PollBudget
        /\ (last.result.seen.state = "finished"
              /\ (last.result.seen.hotels = 0 \/ last.result.seen.tours = 0))
           => last.result.kind = "no_results_error"
        /\ (last.result.timed_out /\ last.result.seen.hotels = 0)
           => last.result.kind = "no_results_error"
        /\ (last.result.timed_out /\ last.result.seen.hotels > 0)
           => last.result.kind \in {"status", "results", "exception"}

(***************************************************************************)
(* The web application (app.py) serving one session id.  The server is     *)
(* threaded (app.py:783): each request runs get_handler and then chat() or *)
(* reset() of the handler it was given.  _handlers_lock is held while      *)
(* get_handler looks the handler up and while the reset route calls        *)
(* reset(), never while chat() runs.  The request whose steps are taken is *)
(* the one whose locals are pc .. built; waiting holds the locals of the   *)
(* other request that has been given the same handler.                     *)
(***************************************************************************)
MaxRequests == 2        \* message requests of the session
MaxAppIterations == 1   \* answers with tool calls in one chat() of these requests

localVars == <<pc, iteration, empty_retries, timeout_retries, geo_retries, reply,
               model_error, built, promise_nudges>>

\* what reset() and chat() read and write in the handler
handlerVars == <<full_history, sessionVars, input_list, previous_response_id, pinned_context>>

Locals ==
    [pc |-> pc, iteration |-> iteration, empty_retries |-> empty_retries,
     timeout_retries |-> timeout_retries, geo_retries |-> geo_retries, reply |-> reply,
     model_error |-> model_error, built |-> built, promise_nudges |-> promise_nudges]

\* a request that has its handler and has not called chat() yet
IdleLocals ==
    [pc |-> "idle", iteration |-> 0, empty_retries |-> 0, timeout_retries |-> 0,
     geo_retries |-> 0, reply |-> "none", model_error |-> <<>>, built |-> <<>>,
     promise_nudges |-> 0]

SetLocals(L) ==
    /\ pc' = L.pc
    /\ iteration' = L.iteration
    /\ empty_retries' = L.empty_retries
    /\ timeout_retries' = L.timeout_retries
    /\ geo_retries' = L.geo_retries
    /\ reply' = L.reply
    /\ model_error' = L.model_error
    /\ built' = L.built
    /\ promise_nudges' = L.promise_nudges

\* what the user and the model say in these requests
AppUtterances == { {"departure", "specific_date", "nights", "travelers", "stars", "meal"} }

AppTurns == { <<CallSearch("a", Handle(<<"4", "1">>))>>, <<CallResults("a")>> }

AppAnswers == { [finish_reason |-> "stop", text |-> "plain"] }

AppYandexAnswers == { [output_empty |-> FALSE, content_filter |-> FALSE, text |-> "plain"] }

\* the requests of the session that are answered or inside chat()
Begun == nrequests + (IF waiting = <<>> THEN 0 ELSE 1)

\* chat_v1 (app.py:482-520): a request is given the handler of the session
\* and calls chat() on it
AppOaChat == provider = "openai" /\ Begun < MaxRequests /\ OaChatEnterOf(AppUtterances)

AppYaChat == provider = "yandex" /\ Begun < MaxRequests /\ YaChatEnterOf(AppUtterances)

\* the steps of the chat() that is running
AppOaToolCalls == provider = "openai" /\ iteration < MaxAppIterations /\ OaToolCallsOf(AppTurns)

AppOaText == provider = "openai" /\ OaTextResponseOf(AppAnswers)

AppYaFunctionCalls ==
    provider = "yandex" /\ iteration < MaxAppIterations /\ YaFunctionCallsOf(AppTurns)

AppYaText == provider = "yandex" /\ YaTextResponseOf(AppYandexAnswers)

\* get_handler (app.py:192-204) gives a second request the handler of the
\* session while the first is inside chat(): the lock is released on return
AppArrive ==
    /\ pc \in {"loop", "done"}
    /\ waiting = <<>>
    /\ nrequests + 1 < MaxRequests
    /\ waiting' = <<Locals>>
    /\ SetLocals(IdleLocals)
    /\ UNCHANGED <<dispatchVars, max_history_len, input_list, previous_response_id,
                   pinned_context, untrimmed, provider, delivered, nrequests>>

\* the scheduler of the threads runs the other request
AppSwitch ==
    /\ waiting # <<>>
    /\ waiting' = <<Locals>>
    /\ SetLocals(waiting[1])
    /\ UNCHANGED <<dispatchVars, max_history_len, input_list, previous_response_id,
                   pinned_context, untrimmed, provider, delivered, nrequests>>

\* chat_v1 after chat() has returned (app.py:525-526, 553-557): the cards
\* of the handler are copied into the response and cleared
AppDeliver ==
    /\ pc = "done"
    /\ delivered' = [cards |-> pending_tour_cards,
                     built |-> IF built = <<>> THEN <<>> ELSE built[1]]
    /\ pending_tour_cards' = <<>>
    /\ nrequests' = nrequests + 1
    /\ IF waiting = <<>>
       THEN SetLocals(IdleLocals) /\ waiting' = waiting
       ELSE SetLocals(waiting[1]) /\ waiting' = <<>>
    /\ UNCHANGED <<full_history, last_search_params, last_departure_city, last_requestid,
                   search_awaiting_results, tourid_map, metrics, user_stated_budget, ideal,
                   ndispatch, last, submitted, max_history_len, input_list,
                   previous_response_id, pinned_context, untrimmed, provider>>

\* the reset route (app.py:689-701) with OpenAIHandler.reset
\* (openai_handler.py:862-889)
OaReset ==
    /\ provider = "openai"
    /\ full_history' = <<>>
    /\ input_list' = "empty"
    /\ pending_tour_cards' = <<>>
    /\ pinned_context' = EmptyArgs
    /\ last_departure_city' = "Moskva"
    /\ last_requestid' = <<>>
    /\ tourid_map' = EmptyArgs
    /\ last_search_params' = EmptyArgs
    /\ user_stated_budget' = 0
    /\ previous_response_id' = FALSE
    /\ metrics' = InitMetrics
    /\ UNCHANGED <<search_awaiting_results, ideal, ndispatch, last, submitted,
                   max_history_len, untrimmed, localVars, appVars>>

\* the reset route with YandexGPTHandler.reset (yandex_handler.py:3853-3862)
YaReset ==
    /\ provider = "yandex"
    /\ input_list' = "empty"
    /\ full_history' = <<>>
    /\ previous_response_id' = FALSE
    /\ pending_tour_cards' = <<>>
    /\ last_departure_city' = "Moskva"
    /\ UNCHANGED <<last_search_params, last_requestid, search_awaiting_results, tourid_map,
                   metrics, user_stated_budget, ideal, ndispatch, last, submitted,
                   max_history_len, pinned_context, untrimmed, localVars, appVars>>

InitApp ==
    /\ full_history = <<>>
    /\ max_history_len = MAX_HISTORY_LEN
    /\ provider \in {"openai", "yandex"}
    /\ InitSession
    /\ InitChat

NextApp ==
    \/ AppOaChat
    \/ AppYaChat
    \/ AppOaToolCalls
    \/ AppOaText
    \/ AppYaFunctionCalls
    \/ AppYaText
    \/ AppArrive
    \/ AppSwitch
    \/ AppDeliver
    \/ OaReset
    \/ YaReset

SpecApp == InitApp /\ [][NextApp]_vars

(***************************************************************************)
(* C13: one request at a time in a session                                 *)
(***************************************************************************)
\* a step of one request writes the state of the handler while the other
\* request is between the entry and the return of its chat()
Interleaved == waiting # <<>> /\ waiting[1].pc = "loop" /\ handlerVars' # handlerVars

\* a reset runs while a request is between the entry of chat() and its response
ResetInFlight ==
    (OaReset \/ YaReset) /\ (pc # "idle" \/ (waiting # <<>> /\ waiting[1].pc # "idle"))

\* C13: the state of a session's handler is written by at most one request
\* in flight at a time: two message requests, or a message request and a
\* reset request, for the same session id never interleave their reads and
\* writes of it.
C13_OneRequestInFlight == [][~Interleaved /\ ~ResetInFlight]_vars

(***************************************************************************)
(* C14: reset() against a freshly constructed handler                      *)
(***************************************************************************)
\* the conversational state of a handler as __init__ leaves it
\* (yandex_handler.py:1130-1207, openai_handler.py:78-116)
FreshHandler ==
    /\ full_history = <<>>
    /\ input_list = "empty"
    /\ previous_response_id = FALSE
    /\ pinned_context = EmptyArgs
    /\ last_search_params = EmptyArgs
    /\ last_departure_city = "Moskva"
    /\ last_requestid = <<>>
    /\ search_awaiting_results = FALSE
    /\ tourid_map = EmptyArgs
    /\ metrics = InitMetrics
    /\ pending_tour_cards = <<>>
    /\ user_stated_budget = 0
    /\ ideal = [datefrom |-> <<>>, nightsfrom |-> <<>>, nightsto |-> <<>>, has_budget |-> FALSE]

\* C14: after reset() every piece of conversational state equals that of a
\* freshly constructed handler (history, pinned context, last search
\* parameters, last request handle, tour index, pending cards, the
\* awaiting-results flag, the ranking parameters and the metrics counters),
\* for the OpenAI and for the Yandex handler.
C14_ResetRestoresFreshState == [][(OaReset \/ YaReset) => FreshHandler']_vars

(***************************************************************************)
(* C15: the cards delivered with a reply                                   *)
(***************************************************************************)
\* C15: the cards handed to the caller after chat() returned are exactly
\* those built by the last get_search_results dispatch of that same chat(),
\* and none if no such dispatch ran; cards of an earlier message are never
\* delivered with a later reply.
C15_DeliveredCardsAreOwn == delivered.cards = delivered.built

(***************************************************************************)
(* C21: a context-length failure of the model call                         *)
(***************************************************************************)
\* the model call of this step failed and the text of the failure matches
\* pattern p and no rate limit
FailedWith(p) ==
    /\ pc = "loop" /\ iteration' = iteration + 1
    /\ model_error' # <<>>
    /\ p \in model_error'[1] /\ "429" \notin model_error'[1]

\* the first block of the history and its last three blocks
HeadAndLastThree(hist) ==
    LET blocks == group_into_blocks(hist)
        kept == {i \in 1..Len(blocks) : i = 1 \/ i > Len(blocks) - 3}
    IN  Flatten(SelectSeq([i \in 1..Len(blocks) |-> IF i \in kept THEN blocks[i] ELSE <<>>],
                          LAMBDA b : b # <<>>))

\* retries after context-length failures are counted in empty_retries, which
\* chat() sets to 0 on entry and never decreases
CapOfTwo ==
    /\ empty_retries' = empty_retries + 1
    /\ IF empty_retries' <= 2 THEN pc' = "loop"
       ELSE pc' = "done" /\ reply' = "dialog_too_long"

\* C21 as stated: on a context-length failure the history is replaced by its
\* head block plus its last three blocks and the model call is retried, at
\* most twice in one chat(); after that the apology for a dialogue that
\* became too long is returned.
C21_ShrinkAndRetry ==
    [][FailedWith("context_length") =>
          /\ full_history' = HeadAndLastThree(full_history)
          /\ CapOfTwo]_vars

\* C21, amended: a history of more than 8 turns is replaced by its head
\* block plus its last three blocks, a history of at most 8 turns is left as
\* it is; the model call is retried, at most twice in one chat(), and after
\* that the apology is returned.
C21_ShrinkLongAndRetry ==
    [][FailedWith("context_length") =>
          /\ full_history' = IF Len(full_history) > 8 THEN HeadAndLastThree(full_history)
                              ELSE full_history
          /\ CapOfTwo]_vars

\* a history of 29 turns was cut to its head and its last three blocks, 8
\* turns, and the third failure of the chat() ended it with the apology
C21_Witness ==
    /\ pc = "done" /\ reply = "dialog_too_long"
    /\ model_error = <<{"context_length"}>>
    /\ empty_retries = 3 /\ iteration = 3
    /\ Len(untrimmed) = 32
    /\ Len(full_history) = 8

(***************************************************************************)
(* C22: the repair of the history                                          *)
(***************************************************************************)
\* the turn that heads the block of turn i: i itself, or for a tool turn the
\* nearest turn before it that is not a tool turn (0 if there is none)
HeadOf(hist, i) ==
    IF hist[i].role # "tool" THEN i
    ELSE LET before == {j \in 1..(i - 1) : hist[j].role # "tool"}
         IN  IF before = {} THEN 0
             ELSE CHOOSE j \in before : \A k \in before : k <= j

\* the tool turns that follow turn h without another turn between
ResultsOf(hist, h) ==
    {j \in (h + 1)..Len(hist) : \A k \in (h + 1)..j : hist[k].role = "tool"}

\* the ids of the results of the tool-call turn h are the ids of its calls
IdsMatch(hist, h) ==
    {hist[j].tool_call_id : j \in ResultsOf(hist, h)}
       = {hist[h].tool_calls[k] : k \in 1..Len(hist[h].tool_calls)}

\* turn i is a tool turn outside every block headed by a tool-call turn
Orphan(hist, i) ==
    hist[i].role = "tool" /\ (HeadOf(hist, i) = 0 \/ ~IsToolCall(hist[HeadOf(hist, i)]))

\* turn i stays: it is no orphan, and the block it is in, if headed by a
\* tool-call turn, has matching ids
Stays(hist, i) ==
    /\ ~Orphan(hist, i)
    /\ IsToolCall(hist[HeadOf(hist, i)]) => IdsMatch(hist, HeadOf(hist, i))

Repaired(hist) == SelectSeq([i \in 1..Len(hist) |-> [turn |-> hist[i], stays |-> Stays(hist, i)]],
                            LAMBDA e : e.stays)

\* C22: after _cleanup_history no tool turn remains outside a block headed
\* by an assistant tool-call turn, every remaining tool-call block has
\* tool-result ids exactly matching its tool-call ids, every other turn is
\* kept in its original order, and a second pass changes nothing.
C22_CleanupRepairs ==
    (pc = "cleaned") =>
        /\ \A i \in 1..Len(full_history) : ~Orphan(full_history, i)
        /\ \A i \in 1..Len(full_history) :
              IsToolCall(full_history[i]) => IdsMatch(full_history, i)
        /\ full_history = [i \in 1..Len(Repaired(untrimmed)) |-> Repaired(untrimmed)[i].turn]
        /\ cleanup_history(full_history) = full_history

\* an orphaned tool turn and a block with a missing result went, the turns
\* around them and a complete block stayed
C22_Witness ==
    /\ pc = "cleaned"
    /\ untrimmed = <<ToolMsg("b", {"result"}), Msg("user", {}), ToolCallMsg(<<"a", "b">>),
                     ToolMsg("a", {"result"}), Msg("assistant", {})>>
    /\ full_history = <<Msg("user", {}), Msg("assistant", {})>>

(***************************************************************************)
(* C23: timeouts, connection resets, geo blocks and unclassified failures  *)
(***************************************************************************)
\* the model call of this step failed and the text of the failure matches
\* the patterns of class and no other
FailedAs(class) ==
    /\ pc = "loop" /\ iteration' = iteration + 1
    /\ model_error' = <<class>>

GenericApology == pc' = "done" /\ reply' = "temporary_error"

\* C23: within one chat() a timeout or a connection reset is retried once in
\* total, both kinds sharing a counter, and a geo block is retried once; the
\* next failure of the same class, and any failure of no class, ends the
\* chat() with the generic apology.
C23_BoundedRetries ==
    [][/\ \A kind \in {"timeout", "connection_reset"} :
             FailedAs({kind}) =>
                /\ timeout_retries' = timeout_retries + 1
                /\ geo_retries' = geo_retries
                /\ IF timeout_retries = 0 THEN pc' = "loop" ELSE GenericApology
       /\ FailedAs({"403"}) =>
             /\ geo_retries' = geo_retries + 1
             /\ timeout_retries' = timeout_retries
             /\ IF geo_retries = 0 THEN pc' = "loop" ELSE GenericApology
       /\ FailedAs({}) => GenericApology]_vars

\* a timeout and a geo block were retried, and the connection reset that
\* followed ended the chat()
C23_Witness ==
    /\ pc = "done" /\ reply = "temporary_error"
    /\ model_error = <<{"connection_reset"}>>
    /\ timeout_retries = 2 /\ geo_retries = 1
    /\ iteration = 3

\* ---------------------------------------------------------------------------
\* C24: in the Yandex loop a final text that holds calls which
\* _extract_plaintext_tool_calls recognises is never returned and is treated
\* before any other handling of the text: its calls go through the dispatcher,
\* their results are appended to the history and the loop goes on.
CallsRecovered ==
    /\ ndispatch' > ndispatch
    /\ Len(full_history') = Len(full_history) + 2
    /\ full_history'[Len(full_history')].role = "user"
    /\ pc' = "loop"

C24_PlaintextCallsRunFirst == [][YaPlaintextCalls => CallsRecovered]_vars

\* ---------------------------------------------------------------------------
\* C25: a final text that promises a search without calling a tool is answered
\* with a nudge and another model call; it is returned only when a nudge has
\* been appended before in the same chat(), and the nudges of one chat() are
\* bounded.
PromisedText ==
    \/ \E f \in {"stop", "length"} :
          OaTextResponseOf({[finish_reason |-> f, text |-> "promised"]})
    \/ YaTextResponseOf({[output_empty |-> FALSE, content_filter |-> FALSE, text |-> "promised"]})

C25_PromiseNudgedBeforeReturned ==
    [][PromisedText => /\ pc' = "done" => promise_nudges >= 1
                       /\ pc' = "loop" => promise_nudges' = promise_nudges + 1
                       /\ promise_nudges' <= 1]_vars

\* ---------------------------------------------------------------------------
\* C26: the awaiting-results flag is true exactly when a search has been
\* submitted and its results have not been retrieved since: a dispatch that
\* obtains a request handle sets it, a dispatch that retrieves the results
\* clears it, and any other dispatch leaves it as it is.
HandleObtained == last'.op = "search_tours" /\ last'.result.kind = "requestid"

ResultsRetrieved == last'.op = "get_search_results" /\ last'.result.kind = "hotels"

C26_AwaitingUntilRetrieved ==
    [][ndispatch' # ndispatch =>
          search_awaiting_results' = IF HandleObtained THEN TRUE
                                     ELSE IF ResultsRetrieved THEN FALSE
                                     ELSE search_awaiting_results]_vars

\* ---------------------------------------------------------------------------
\* C27: the date correctors of search_tours, applied to arguments they have
\* already corrected, with the same history and the same current date, change
\* neither datefrom nor dateto.
SameDates(a, b) ==
    \A k \in {"datefrom", "dateto"} : /\ Has(a, k) <=> Has(b, k)
                                      /\ Has(a, k) => a[k] = b[k]

C27_DateRepairIdempotent ==
    pc = "again" => SameDates(last.result.repaired, last.args)

\* ---------------------------------------------------------------------------
\* C28: the sanitizers of the final text, applied to the text they gave,
\* return it unchanged; and they return their input unchanged when it holds
\* none of their trigger patterns (a repeated first line, a reasoning marker
\* or JSON fragment, a repeated question, a fragment after the last question,
\* a tool name, a run of blanks or a blank at either end).
NoTrigger(text) ==
    /\ \A i \in 1..Len(text) : text[i] \notin {"tool_name", "orphan", "marker", "json"}
    /\ \A i, j \in 1..Len(text) : (i # j /\ text[i] = text[j]) => IsBlank(text[i])
    /\ collapse_blanks(text) = text
    /\ Strip(text) = text

C28_SanitizerIdempotent ==
    /\ pc = "again" => last.result.text = last.args
    /\ (pc = "sanitized" /\ NoTrigger(last.args)) => last.result.text = last.args

\* ---------------------------------------------------------------------------
\* C29: _trim_history leaves a history within the budget as it is; otherwise
\* it removes whole blocks, the oldest block after the head block first, and
\* stops as soon as the turns are within the budget or three blocks remain.
\* The head block and the most recent blocks stay, in their order.
KeptBlocks(blocks, k) == <<blocks[1]>> \o SubSeq(blocks, k + 2, Len(blocks))

TrimStops(blocks, k, limit) ==
    TotalLen(KeptBlocks(blocks, k)) <= limit \/ Len(blocks) - k <= 3

C29_TrimPolicy ==
    pc = "trimmed" =>
        IF Len(untrimmed) <= max_history_len THEN full_history = untrimmed
        ELSE \E k \in 0..Len(untrimmed) :
                /\ TrimStops(group_into_blocks(untrimmed), k, max_history_len)
                /\ \A j \in 0..(k - 1) : ~TrimStops(group_into_blocks(untrimmed), j, max_history_len)
                /\ full_history = Flatten(KeptBlocks(group_into_blocks(untrimmed), k))

\* blocks were removed down to three and the turns are still over the budget
C29_Witness ==
    /\ pc = "trimmed"
    /\ Len(full_history) < Len(untrimmed)
    /\ Len(full_history) > max_history_len
    /\ Len(group_into_blocks(full_history)) = 3
    /\ Len(group_into_blocks(untrimmed)) = 5

\* ---------------------------------------------------------------------------
\* C30: _execute_function gives exactly one result for a tool call, with the
\* id of the call: arguments that are not JSON give an error result and
\* nothing is dispatched; an expired offer, no results and any other exception
\* of the dispatch give an error result; the loop goes on with the result.
Raised(kind) == kind \in {"expired_error", "no_results_error", "exception"}

ErrorOutputs == {{"business_error"}, {"unexpected_error"}}

AnsweredOnce(call) ==
    /\ Len(full_history') = Len(full_history) + 2
    /\ full_history'[Len(full_history') - 1] = ToolCallMsg(<<call.id>>)
    /\ full_history'[Len(full_history')].role = "tool"
    /\ full_history'[Len(full_history')].tool_call_id = call.id
    /\ pc' = "loop"

OutputOf(call) ==
    LET output == full_history'[Len(full_history')].text
    IN  IF call.malformed
        THEN /\ output = {"invalid_json"}
             /\ last'.calls = <<>>
             /\ UNCHANGED sessionVars
        ELSE /\ Raised(last'.result.kind) <=> output \in ErrorOutputs
             /\ ~Raised(last'.result.kind) => output = {"result"}

C30_OneResultPerCall ==
    [][\A call \in ExecCalls :
          OaToolCallsOf({<<call>>}) => (AnsweredOnce(call) /\ OutputOf(call))]_vars

\* the three conversions have happened in one chat(): arguments that are not
\* JSON, then an expired offer
C30_Witness ==
    /\ pc = "loop"
    /\ iteration = 2
    /\ Len(full_history) >= 4
    /\ full_history[Len(full_history) - 2].text = {"invalid_json"}
    /\ full_history[Len(full_history)].text = {"business_error"}
    /\ last.result.kind = "expired_error"

\* ---------------------------------------------------------------------------
\* C31: a search given to the client by search_tours, both nightsfrom and
\* nightsto being in the arguments of the model, has nightsfrom >= 3 and
\* nightsfrom <= nightsto.
SearchSubmissions == SelectSeq(last.calls, LAMBDA c : c.fn = "search_tours")

BothNights(args) == Has(args, "nightsfrom") /\ Has(args, "nightsto")

C31_NightsBoundsRepaired ==
    (last.op = "search_tours" /\ BothNights(last.args)) =>
        \A i \in 1..Len(SearchSubmissions) :
            /\ SearchSubmissions[i].arg["nightsfrom"] >= 3
            /\ SearchSubmissions[i].arg["nightsfrom"] <= SearchSubmissions[i].arg["nightsto"]

\* ---------------------------------------------------------------------------
\* C32: when the latest message of the user expresses indifference to the
\* quality of the hotel, the search that search_tours gives to the client has
\* none of stars, starsbetter, meal, mealbetter, whatever the model passed and
\* whatever the parameter cache held.
Indifferent(hist) == UserMessages(hist) # <<>> /\ "skip_qc" \in Last(UserMessages(hist)).text

SubmittedTo(calls) == SelectSeq(calls, LAMBDA c : c.fn = "search_tours")

C32_IndifferenceStripsQuality ==
    [][(SearchQuality /\ Indifferent(full_history)) =>
          \A i \in 1..Len(SubmittedTo(last'.calls)) :
              DOMAIN SubmittedTo(last'.calls)[i].arg \cap QUALITY_FILTERS = {}]_vars

\* ---------------------------------------------------------------------------
\* C33: for a list of tours that is not empty and a range of nights,
\* _pick_best_tour returns a tour of the list that is minimal in the
\* lexicographic order of (tier of the nights, days between the flight and the
\* ideal start date, price); a tour within the range has the tier nightsto -
\* nights, a tour outside it 100 + its distance to the nearer bound.
TierOf(t, nf, nt) ==
    IF nf <= t.nights /\ t.nights <= nt THEN nt - t.nights
    ELSE 100 + Min(Abs(t.nights - nf), Abs(t.nights - nt))

DaysFrom(t, datefrom) == Abs(Ord(t.flydate) - Ord(datefrom))

LexKey(t, I) == <<TierOf(t, I.nightsfrom[1], I.nightsto[1]), DaysFrom(t, I.datefrom[1]), t.price>>

LexLeq(a, b) ==
    \/ a[1] < b[1]
    \/ a[1] = b[1] /\ a[2] < b[2]
    \/ a[1] = b[1] /\ a[2] = b[2] /\ a[3] <= b[3]

C33_PicksLexMinimalTour ==
    (pc = "picked") =>
        /\ Len(last.result.best) = 1
        /\ \E i \in 1..Len(last.args.tours) : last.args.tours[i] = last.result.best[1]
        /\ \A i \in 1..Len(last.args.tours) :
              LexLeq(LexKey(last.result.best[1], last.args.ideal),
                     LexKey(last.args.tours[i], last.args.ideal))

\* ---------------------------------------------------------------------------
\* C34: when the calls of one turn of the model run concurrently, the tour
\* index, the pending cards, the last request handle, the awaiting-results
\* flag and the cached search parameters left when all of them have completed
\* are the same for every order in which the calls complete.
SharedState(S) == <<S.tmap, S.cards, S.rid, S.awaiting, S.lsp>>

GatheredState(turn, order) ==
    SharedState(GatherCalls(Session, turn, order,
                            Append(full_history, ToolCallMsg(CallIds(turn)))).S)

C34_GatherOrderIndependent ==
    [][\A turn \in RichTurns :
          (Len(turn) > 1 /\ OaToolCallsOf({turn})) =>
              \A order \in Orders(Len(turn)) : GatheredState(turn, order) = SharedState(Session')]_vars

\* ---------------------------------------------------------------------------
\* C35: at every model call of a chat() the history holds the user turn that
\* started this chat(): neither the trim at the entry nor the shrink after a
\* context-length error removes it.
CurrentUserTurn == Last(untrimmed)

C35_CurrentUserTurnKept ==
    (pc = "loop") => \E i \in 1..Len(full_history) : full_history[i] = CurrentUserTurn

\* C36: whenever the tour index is non-empty, every position p of it is a
\* position of the latest result cards and the offer id indexed at p is the id
\* of the card shown at p, also after get_hot_tours has replaced the cards.
IndexDescribesCards(tmap, cards) ==
    \A p \in DOMAIN tmap : p <= Len(cards) /\ cards[p].id = tmap[p].tourid

C36_TourIndexDescribesLatestCards ==
    (tourid_map # EmptyArgs) => IndexDescribesCards(tourid_map, pending_tour_cards)

\* C37: at every call of the model by OpenAIHandler.chat the pinned context,
\* when there is one, lists exactly the offers of the tour index of that
\* moment; once a search_tours submission has emptied the index, the pinned
\* context no longer lists the offers of the search before.
C37_PinnedContextIsTourIndex ==
    (pc = "loop" /\ iteration < OA_MAX_ITERATIONS /\ pinned_context # EmptyArgs)
        => pinned_context = tourid_map

\* the last dispatch took an offer id that is not numeric and that names no
\* position of the tour index: it contains no ordinal word or digit, or only
\* those of positions that are not indexed
UnindexedCase ==
    /\ last.op \in {"get_tour_details", "actualize_tour"}
    /\ ~IsDigitStr(GetStr(last.args, "tourid"))
    /\ PositionsNamed \cap DOMAIN tourid_map = {}

\* C38: a get_tour_details or actualize_tour call whose offer id is not
\* numeric and names no indexed position is answered with the correction to
\* the model and queries the client with no offer, in particular not with the
\* offer indexed at another position.
C38_UnindexedPositionRejected ==
    UnindexedCase => (last.result.kind = "error_tourid" /\ last.calls = <<>>)

\* the requests to search.php of the last dispatch, as the client sends them
SearchRequests ==
    [i \in 1..Len(SearchSubmissions) |-> RequestParams(SearchSubmissions[i].arg)]

\* C39: every search submitted by search_tours has a start date that is not
\* before the current date, whatever dates the model passed and whatever the
\* user said, a part of a month included.
C39_StartDateNotInPast ==
    \A i \in 1..Len(SearchRequests) :
        Parses(SearchRequests[i]["datefrom"]) => Ord(SearchRequests[i]["datefrom"]) >= Ord(Now)

\* year, month and day of a date string of the form DD.MM.YYYY as one number
DateKey(v) == v.y * 10000 + v.m * 100 + v.d

\* C40: every request sent to search.php carries an end date, and that end
\* date is not before the start date of the request, for any datefrom and
\* dateto passed by the model, after the repairs of the dispatcher and of the
\* client.
C40_EndDateNotBeforeStart ==
    \A i \in 1..Len(SearchRequests) :
        /\ Has(SearchRequests[i], "dateto")
        /\ DateKey(SearchRequests[i]["dateto"]) >= DateKey(SearchRequests[i]["datefrom"])

====
